---- MODULE Spec2Model ----
(***************************************************************************)
(* Model of the cinematic-framing training core: the episode engine        *)
(* (cinematic_env.py), the reward terms (env_reward.py), the virtual       *)
(* canvas embedder driven by the frame-extraction loop (canvas.py,         *)
(* extract_frames.py) and the expert-action derivation (bc_dataset.py).    *)
(*                                                                         *)
(* Numbers.  Python floats are modelled as exact rationals <<n, d>> with   *)
(* d > 0 in lowest terms, so comparisons and clamps are exact.  The two    *)
(* transcendental steps of the reward (exp and the Euclidean norm) are     *)
(* evaluated on a 1/1000 grid and all reward terms are integers in         *)
(* thousandths.                                                            *)
(***************************************************************************)
EXTENDS Integers, Sequences, FiniteSets, TLC

VARIABLES
    \* ---- CinematicFramingEnv (cinematic_env.py) ----
    sessions,          \* self._sessions: the loaded pool, a sequence of session ids
    current_frames,    \* self._current_frames: the slice [sid, start, len] of a session
    step_idx,          \* self._step_idx
    fps,               \* self._fps
    crop_x, crop_y, crop_w, crop_h, zoom,   \* self._crop_x .. self._zoom
    prev_action, prev_prev_action,           \* self._prev_action, self._prev_prev_action
    prev_speaker_x, prev_speaker_y,          \* self._prev_speaker_x/y
    ret,               \* what the last reset/step call returned
    nsteps,            \* number of step calls since the last reset (history)
    twin,              \* a second engine over the same sessions, run alongside
    reset_options,     \* the options argument of the last reset call (history)
    \* ---- frame-extraction loop (extract_frames.py main, canvas.py) ----
    zoom_range,        \* (args.zoom_min, args.zoom_max)
    canvas_state,      \* canvas_state: None or a CanvasState
    detection,         \* the detection of the frame processed last
    embedding,         \* the CanvasEmbedding written for that frame
    output_idx,        \* frames written so far
    init_calls,        \* number of initialize_canvas calls so far (history)
    crop_pos,          \* locals of the last _compute_crop_position call (history)
    \* ---- expert-action derivation (bc_dataset.py) ----
    ideal_pair,        \* two consecutive ideal crops [c0, c1]
    expert,            \* the action derived from them
    \* ---- direct calls of pure functions (env_reward.py, bc_dataset.py) ----
    pure_call          \* the last call: its arguments and what it returned

envVars == <<sessions, current_frames, step_idx, fps, crop_x, crop_y, crop_w, crop_h,
             zoom, prev_action, prev_prev_action, prev_speaker_x, prev_speaker_y,
             ret, nsteps, twin, reset_options>>
canvasVars == <<zoom_range, canvas_state, detection, embedding, output_idx,
                init_calls, crop_pos>>
expertVars == <<ideal_pair, expert>>

vars == <<envVars, canvasVars, expertVars, pure_call>>

-----------------------------------------------------------------------------
(* Exact rational arithmetic.                                              *)

Abs(i) == IF i < 0 THEN -i ELSE i

RECURSIVE GCD(_, _)
GCD(a, b) == IF b = 0 THEN a ELSE GCD(b, a % b)

\* The rational n/d (d > 0) in lowest terms.
Q(n, d) == LET g == GCD(Abs(n), d) IN IF g = 0 THEN <<0, 1>> ELSE <<n \div g, d \div g>>

Zero == Q(0, 1)
One == Q(1, 1)

Add(a, b) ==
    LET g == GCD(a[2], b[2])
    IN  Q(a[1] * (b[2] \div g) + b[1] * (a[2] \div g), (a[2] \div g) * b[2])
Neg(a) == <<-a[1], a[2]>>
Sub(a, b) == Add(a, Neg(b))
Mul(a, b) ==
    LET g1 == GCD(Abs(a[1]), b[2])
        g2 == GCD(Abs(b[1]), a[2])
    IN  IF a[1] = 0 \/ b[1] = 0 THEN <<0, 1>>
        ELSE <<(a[1] \div g1) * (b[1] \div g2), (a[2] \div g2) * (b[2] \div g1)>>
Inv(a) == IF a[1] > 0 THEN <<a[2], a[1]>> ELSE <<-a[2], -a[1]>>
Div(a, b) == Mul(a, Inv(b))
\* a - b as an integer of the same sign (denominators are positive).
Cmp(a, b) ==
    LET g == GCD(a[2], b[2])
    IN  IF a[1] <= 0 /\ b[1] >= 0 THEN (IF a[1] = 0 /\ b[1] = 0 THEN 0 ELSE -1)
        ELSE IF a[1] >= 0 /\ b[1] <= 0 THEN 1
        ELSE a[1] * (b[2] \div g) - b[1] * (a[2] \div g)
Lt(a, b) == Cmp(a, b) < 0
Le(a, b) == Cmp(a, b) <= 0
RMin(a, b) == IF Lt(b, a) THEN b ELSE a
RMax(a, b) == IF Lt(a, b) THEN b ELSE a
RAbs(a) == <<Abs(a[1]), a[2]>>

\* numpy.clip(v, lo, hi) == minimum(maximum(v, lo), hi)
NpClip(v, lo, hi) == RMin(RMax(v, lo), hi)

-----------------------------------------------------------------------------
(* Optional values and dict lookups.                                       *)

\* Python's None (and the empty dict) is the empty function.
None == << >>
IsNone(v) == DOMAIN v = {}

\* dict.get(key, default)
Get(dict, key, default) == IF key \in DOMAIN dict THEN dict[key] ELSE default

-----------------------------------------------------------------------------
(* Constants of cinematic_env.py.                                          *)

MAX_PAN_SPEED == Q(2, 100)
MAX_TILT_SPEED == Q(2, 100)
MAX_ZOOM_SPEED == Q(5, 100)
MIN_CROP_H == Q(25, 100)
MAX_ZOOM == Q(4, 1)
ASPECT_RATIO == Q(16, 9)

DEFAULT_MIN_LEN == 60
DEFAULT_MAX_LEN == 900
DEFAULT_FPS == 30

-----------------------------------------------------------------------------
(* Bounds of the model.                                                    *)

\* Largest min_episode_len / max_episode_len passed in reset's options.
MaxOptLen == 3
\* Step calls explored per episode (steps after truncation included).
MaxSteps == 3

-----------------------------------------------------------------------------
(* Session records (env_loader.SessionData): what scan_sessions loaded.    *)
(* A frame record carries the fields the engine reads: speaker (x, y, z),  *)
(* keypoints, current_crop and ideal_crop.                                 *)

Speaker(x, y, z) == [x |-> x, y |-> y, z |-> z]
Keypoints(hx, hy, wx, wy, pc) ==
    [head_x |-> hx, head_y |-> hy, waist_x |-> wx, waist_y |-> wy, pose_confidence |-> pc]
CropRec(x, y, w, h, z) == [x |-> x, y |-> y, w |-> w, h |-> h, zoom |-> z]
Frame(sp, kp, crop) ==
    [speaker |-> sp, keypoints |-> kp, current_crop |-> crop, ideal_crop |-> crop]

\* Crops as the recorders write them: h = 1/zoom, w = h * 16/9.
CropZ2 == CropRec(Q(1, 10), Q(1, 2), Q(8, 9), Q(1, 2), Q(2, 1))
CropZ4 == CropRec(Zero, Zero, Q(4, 9), Q(1, 4), Q(4, 1))
CropZ18 == CropRec(Zero, Zero, Q(80, 81), Q(5, 9), Q(9, 5))
\* extract_frames.py --zoom-max 5: the schema leaves zoom unbounded.
CropZ5 == CropRec(Q(1, 2), Q(4, 5), Q(16, 45), Q(1, 5), Q(5, 1))

(* The synthetic session of test_env.create_synthetic_session: 100 frames, *)
(* the speaker moving linearly in x and sinusoidally in y.  The tables     *)
(* hold the rounded values the test writes, in units of 1/10000.           *)

SYNTH_NUM_FRAMES == 100

\* round(0.3 + 0.4 * i / 100, 4)
SynthSx ==
    <<
       3000, 3040, 3080, 3120, 3160, 3200, 3240, 3280, 3320, 3360,
       3400, 3440, 3480, 3520, 3560, 3600, 3640, 3680, 3720, 3760,
       3800, 3840, 3880, 3920, 3960, 4000, 4040, 4080, 4120, 4160,
       4200, 4240, 4280, 4320, 4360, 4400, 4440, 4480, 4520, 4560,
       4600, 4640, 4680, 4720, 4760, 4800, 4840, 4880, 4920, 4960,
       5000, 5040, 5080, 5120, 5160, 5200, 5240, 5280, 5320, 5360,
       5400, 5440, 5480, 5520, 5560, 5600, 5640, 5680, 5720, 5760,
       5800, 5840, 5880, 5920, 5960, 6000, 6040, 6080, 6120, 6160,
       6200, 6240, 6280, 6320, 6360, 6400, 6440, 6480, 6520, 6560,
       6600, 6640, 6680, 6720, 6760, 6800, 6840, 6880, 6920, 6960 >>

\* round(0.55 + 0.05 * sin(2 * pi * i / 100), 4)
SynthSy ==
    <<
       5500, 5531, 5563, 5594, 5624, 5655, 5684, 5713, 5741, 5768,
       5794, 5819, 5842, 5864, 5885, 5905, 5922, 5938, 5952, 5965,
       5976, 5984, 5991, 5996, 5999, 6000, 5999, 5996, 5991, 5984,
       5976, 5965, 5952, 5938, 5922, 5905, 5885, 5864, 5842, 5819,
       5794, 5768, 5741, 5713, 5684, 5655, 5624, 5594, 5563, 5531,
       5500, 5469, 5437, 5406, 5376, 5345, 5316, 5287, 5259, 5232,
       5206, 5181, 5158, 5136, 5115, 5095, 5078, 5062, 5048, 5035,
       5024, 5016, 5009, 5004, 5001, 5000, 5001, 5004, 5009, 5016,
       5024, 5035, 5048, 5062, 5078, 5095, 5115, 5136, 5158, 5181,
       5206, 5232, 5259, 5287, 5316, 5345, 5376, 5406, 5437, 5469 >>

\* round(sy + 0.15, 4)
SynthHeadY ==
    <<
       7000, 7031, 7063, 7094, 7124, 7155, 7184, 7213, 7241, 7268,
       7294, 7319, 7342, 7364, 7385, 7405, 7422, 7438, 7452, 7465,
       7476, 7484, 7491, 7496, 7499, 7500, 7499, 7496, 7491, 7484,
       7476, 7465, 7452, 7438, 7422, 7405, 7385, 7364, 7342, 7319,
       7294, 7268, 7241, 7213, 7184, 7155, 7124, 7094, 7063, 7031,
       7000, 6969, 6937, 6906, 6876, 6845, 6816, 6787, 6759, 6732,
       6706, 6681, 6658, 6636, 6615, 6595, 6578, 6562, 6548, 6535,
       6524, 6516, 6509, 6504, 6501, 6500, 6501, 6504, 6509, 6516,
       6524, 6535, 6548, 6562, 6578, 6595, 6615, 6636, 6658, 6681,
       6706, 6732, 6759, 6787, 6816, 6845, 6876, 6906, 6937, 6969 >>

\* round(sy - 0.10, 4)
SynthWaistY ==
    <<
       4500, 4531, 4563, 4594, 4624, 4655, 4684, 4713, 4741, 4768,
       4794, 4819, 4842, 4864, 4885, 4905, 4922, 4938, 4952, 4965,
       4976, 4984, 4991, 4996, 4999, 5000, 4999, 4996, 4991, 4984,
       4976, 4965, 4952, 4938, 4922, 4905, 4885, 4864, 4842, 4819,
       4794, 4768, 4741, 4713, 4684, 4655, 4624, 4594, 4563, 4531,
       4500, 4469, 4437, 4406, 4376, 4345, 4316, 4287, 4259, 4232,
       4206, 4181, 4158, 4136, 4115, 4095, 4078, 4062, 4048, 4035,
       4024, 4016, 4009, 4004, 4001, 4000, 4001, 4004, 4009, 4016,
       4024, 4035, 4048, 4062, 4078, 4095, 4115, 4136, 4158, 4181,
       4206, 4232, 4259, 4287, 4316, 4345, 4376, 4406, 4437, 4469 >>

\* current_crop of every synthetic frame: zoom = round(1 / 0.45, 4).
SynthCrop == CropRec(Q(1, 10), Q(15, 100), Q(8, 10), Q(45, 100), Q(22222, 10000))

SynthFrames ==
    [i \in 1..SYNTH_NUM_FRAMES |->
        Frame(Speaker(Q(SynthSx[i], 10000), Q(SynthSy[i], 10000), Q(28571, 10000)),
              Keypoints(Q(SynthSx[i], 10000), Q(SynthHeadY[i], 10000),
                        Q(SynthSx[i], 10000), Q(SynthWaistY[i], 10000), Q(9, 10)),
              SynthCrop)]

SessionIds ==
    {"session_a", "session_b", "session_c", "session_d", "session_e", "session_sparse",
     "session_test"}

\* The frames of every session on disk, by session id.
AllSessions ==
  [sid \in SessionIds |->
    CASE sid = "session_a" ->
           << Frame(Speaker(Q(40, 100), Q(70, 100), Q(3, 1)),
                    Keypoints(Q(40, 100), Q(85, 100), Q(40, 100), Q(65, 100), Q(9, 10)),
                    CropZ2),
              Frame(Speaker(Q(42, 100), Q(70, 100), Q(3, 1)),
                    Keypoints(Q(42, 100), Q(85, 100), Q(42, 100), Q(65, 100), Q(9, 10)),
                    CropZ2),
              Frame(Speaker(Q(50, 100), Q(72, 100), Q(3, 1)),
                    Keypoints(Q(50, 100), Q(99, 100), Q(50, 100), Q(67, 100), Q(8, 10)),
                    CropZ2) >>
      [] sid = "session_b" ->
           << Frame(None, None, CropZ4),
              Frame(Speaker(Q(30, 100), Q(20, 100), Q(12, 1)), None, CropZ4) >>
      [] sid = "session_c" ->
           << Frame(Speaker(Q(60, 100), Q(50, 100), Q(2, 1)),
                    Keypoints(Q(60, 100), Q(90, 100), Q(60, 100), Q(40, 100), One),
                    CropZ18),
              Frame(None, None, CropZ18),
              Frame(Speaker(Q(33, 100), Q(50, 100), Q(2, 1)),
                    Keypoints(Q(33, 100), Q(30, 100), Q(33, 100), Q(10, 100), Zero),
                    CropZ18) >>
      [] sid = "session_d" ->
           << Frame(Speaker(Q(1, 3), Q(1, 2), Q(4, 1)),
                    Keypoints(Q(1, 3), Q(2, 3), Q(1, 3), Q(1, 3), Q(1, 2)),
                    None),
              Frame(None,
                    Keypoints(Q(1, 2), Q(1, 2), Q(1, 2), Q(1, 4), Q(1, 2)),
                    None) >>
      [] sid = "session_e" ->
           << Frame(Speaker(Q(70, 100), Q(90, 100), Q(5, 1)),
                    Keypoints(Q(70, 100), Q(95, 100), Q(70, 100), Q(85, 100), Q(7, 10)),
                    CropZ5),
              Frame(Speaker(Q(69, 100), Q(90, 100), Q(5, 1)),
                    Keypoints(Q(69, 100), Q(95, 100), Q(69, 100), Q(85, 100), Q(7, 10)),
                    CropZ5) >>
      [] sid = "session_sparse" ->
           << Frame(None, None, CropZ2),
              Frame(None, None, CropZ2),
              Frame(None,
                    Keypoints(Q(45, 100), Q(80, 100), Q(45, 100), Q(60, 100), Q(3, 10)),
                    CropZ2),
              Frame(Speaker(Q(50, 100), Q(70, 100), Q(3, 1)), None, CropZ2),
              Frame(Speaker(Q(52, 100), Q(71, 100), Q(3, 1)),
                    Keypoints(Q(52, 100), Q(83, 100), Q(52, 100), Q(63, 100), Q(9, 10)),
                    CropZ2) >>
      [] sid = "session_test" -> SynthFrames ]

SessionFrames(sid) == AllSessions[sid]

SessionFps(sid) == DEFAULT_FPS
SessionSource(sid) ==
    CASE sid \in {"session_a", "session_e", "session_test"} -> "youtube"
      [] sid \in {"session_b", "session_c"} -> "live"
      [] OTHER -> "unknown"

\* scan_sessions sorts the pool by session id.
SmallPool == <<"session_a", "session_b", "session_c", "session_d", "session_e">>

\* self._current_frames as a slice of a loaded session: frames[start : start+len].
EmptySlice == [sid |-> "", start |-> 0, len |-> 0]
FrameAt(slice, i) == SessionFrames(slice.sid)[slice.start + i + 1]

\* The options dicts reset is called with (None: no options).
OptionSet ==
    {None}
    \cup {[min_episode_len |-> a, max_episode_len |-> b] :
             a \in 1..MaxOptLen, b \in 1..MaxOptLen}
    \cup {[min_episode_len |-> a] : a \in 1..MaxOptLen}
    \cup {[max_episode_len |-> b] : b \in 1..MaxOptLen}

\* The raw actions step is called with (components outside [-1, 1] included).
Act(a, b, c) == <<a, b, c>>
ActionSet ==
    { Act(Zero, Zero, Zero),
      Act(One, One, One),
      Act(Neg(One), Neg(One), Neg(One)),
      Act(Q(1, 2), Q(-1, 2), Zero),
      Act(Q(3, 1), Q(-2, 1), Q(5, 1)) }

-----------------------------------------------------------------------------
(* Fixed-point helpers for the reward terms (values in thousandths).       *)

RECURSIVE Pow10(_)
Pow10(k) == IF k = 0 THEN 1 ELSE 10 * Pow10(k - 1)

\* The first k decimal digits of r/d (0 <= r < d), by long division.
RECURSIVE Digits(_, _, _)
Digits(r, d, k) ==
    IF k = 0 THEN 0
    ELSE LET t == r * 10 IN (t \div d) * Pow10(k - 1) + Digits(t % d, d, k - 1)

\* floor(a * 10^k) of a rational a.  A denominator too large for the long
\* division is first shortened by a decimal digit (relative error below 1e-7).
FloorScaled(a, k) ==
    LET n == IF a[2] > 100000000 THEN a[1] \div 10 ELSE a[1]
        d == IF a[2] > 100000000 THEN a[2] \div 10 ELSE a[2]
    IN  (n \div d) * Pow10(k) + Digits(n % d, d, k)
Milli(a) == FloorScaled(a, 3)

\* floor(sqrt(n)) for 0 <= n, searched in lo..hi.
RECURSIVE SqrtIn(_, _, _)
SqrtIn(n, lo, hi) ==
    IF lo >= hi THEN lo
    ELSE LET mid == (lo + hi + 1) \div 2
         IN  IF mid * mid <= n THEN SqrtIn(n, mid, hi) ELSE SqrtIn(n, lo, mid - 1)
ISqrt(n) == SqrtIn(n, 0, 40000)

\* exp(-k) in millionths for k = 0..7.
ExpNegInt == <<1000000, 367879, 135335, 49787, 18316, 6738, 2479, 912>>

\* exp(-t) in thousandths for t given in thousandths (t >= 0): the integer part
\* from the table, the fractional part from the Taylor series to the 7th term.
ExpNegMilli(tm) ==
    IF tm >= 8000 THEN 0
    ELSE LET ti == tm \div 1000
             f  == tm % 1000
             t1 == (1000000 * f) \div 1000
             t2 == (t1 * f) \div 2000
             t3 == (t2 * f) \div 3000
             t4 == (t3 * f) \div 4000
             t5 == (t4 * f) \div 5000
             t6 == (t5 * f) \div 6000
             frac == 1000000 - t1 + t2 - t3 + t4 - t5 + t6
         IN  ((frac \div 1000) * (ExpNegInt[ti + 1] \div 10)) \div 100000

-----------------------------------------------------------------------------
(* env_reward.py: the five reward terms, each in thousandths.              *)

IDEAL_HEAD == Q(667, 1000)
IDEAL_WAIST == Q(333, 1000)
MIN_CROP == Q(1, 100)

\* |v - target| in thousandths, v quantised to millionths first.
ErrMilli(v, target) == Abs(FloorScaled(v, 6) - FloorScaled(target, 6)) \div 1000

framing_reward(head_y, waist_y, cy, ch, has_person) ==
    IF ~has_person \/ Lt(ch, MIN_CROP) THEN 0
    ELSE LET head_rel == Div(Sub(head_y, cy), ch)
             waist_rel == Div(Sub(waist_y, cy), ch)
             head_error == ErrMilli(head_rel, IDEAL_HEAD)
             waist_error == ErrMilli(waist_rel, IDEAL_WAIST)
             error == (head_error + waist_error) \div 2
         IN  \* exp(-error^2 / (2 * 0.1^2))
             IF error >= 1000 THEN 0 ELSE ExpNegMilli((error * error) \div 20)

\* A jitter penalty that starts with two actions of history, the missing third
\* taken as the zero action.
jitter_penalty_from_second(action, prev, prev_prev) ==
    IF IsNone(action) \/ IsNone(prev) THEN 0
    ELSE LET pp == IF IsNone(prev_prev) THEN <<Zero, Zero, Zero>> ELSE prev_prev
             j(i) == Sub(Sub(action[i], prev[i]), Sub(prev[i], pp[i]))
             sq == Add(Add(Mul(j(1), j(1)), Mul(j(2), j(2))), Mul(j(3), j(3)))
             jerk == IF Le(One, sq) THEN 1000 ELSE ISqrt(FloorScaled(sq, 6))
         IN  -(jerk \div 2)

\* A jitter penalty without the cap min(jerk, 1.0).
jitter_penalty_uncapped(action, prev, prev_prev) ==
    IF IsNone(action) \/ IsNone(prev) \/ IsNone(prev_prev) THEN 0
    ELSE LET j(i) == Sub(Sub(action[i], prev[i]), Sub(prev[i], prev_prev[i]))
             sq == Add(Add(Mul(j(1), j(1)), Mul(j(2), j(2))), Mul(j(3), j(3)))
         IN  -(ISqrt(FloorScaled(sq, 6)) \div 2)

jitter_penalty(action, prev, prev_prev) ==
    IF IsNone(action) \/ IsNone(prev) \/ IsNone(prev_prev) THEN 0
    ELSE LET j(i) == Sub(Sub(action[i], prev[i]), Sub(prev[i], prev_prev[i]))
             sq == Add(Add(Mul(j(1), j(1)), Mul(j(2), j(2))), Mul(j(3), j(3)))
             jerk == IF Le(One, sq) THEN 1000 ELSE ISqrt(FloorScaled(sq, 6))
         IN  \* -0.5 * min(jerk / 1.0, 1.0)
             -(jerk \div 2)

\* A head-cutoff penalty that counts a head on the crop edge as cut off.
head_cutoff_penalty_edges_out(head_y, cy, ch, has_person) ==
    IF ~has_person \/ Lt(ch, MIN_CROP) THEN 0
    ELSE LET head_rel == Div(Sub(head_y, cy), ch)
             margin == RMin(head_rel, Sub(One, head_rel))
         IN  IF Le(One, head_rel) \/ Le(head_rel, Zero) THEN -1000
             ELSE IF Lt(margin, Q(5, 100)) THEN -500
             ELSE 0

head_cutoff_penalty(head_y, cy, ch, has_person) ==
    IF ~has_person \/ Lt(ch, MIN_CROP) THEN 0
    ELSE LET head_rel == Div(Sub(head_y, cy), ch)
             margin == RMin(head_rel, Sub(One, head_rel))
         IN  IF Lt(One, head_rel) \/ Lt(head_rel, Zero) THEN -1000
             ELSE IF Lt(margin, Q(5, 100)) THEN -500
             ELSE 0

rule_of_thirds_bonus(speaker_x, cx, cw, has_person) ==
    IF ~has_person \/ Lt(cw, MIN_CROP) THEN 0
    ELSE LET speaker_rel_x == Div(Sub(speaker_x, cx), cw)
             dist_left == ErrMilli(speaker_rel_x, IDEAL_WAIST)
             dist_right == ErrMilli(speaker_rel_x, IDEAL_HEAD)
             min_dist == IF dist_left < dist_right THEN dist_left ELSE dist_right
         IN  \* 0.2 * exp(-min_dist^2 / (2 * 0.05^2))
             IF min_dist >= 1000 THEN 0
             ELSE (2 * ExpNegMilli((min_dist * min_dist) \div 5)) \div 10

anticipation_bonus(action_dx, action_dy, velocity_x, velocity_y, has_person) ==
    IF ~has_person THEN 0
    ELSE LET speed2 == Add(Mul(velocity_x, velocity_x), Mul(velocity_y, velocity_y))
             move2 == Add(Mul(action_dx, action_dx), Mul(action_dy, action_dy))
             dot == Add(Mul(action_dx, velocity_x), Mul(action_dy, velocity_y))
         IN  IF Lt(speed2, Q(1, 10000)) THEN 0          \* speed < 0.01
             ELSE IF move2 = Zero THEN 0                \* move_norm < 1e-8
             ELSE IF Le(dot, Zero) THEN 0               \* max(0.0, alignment)
             ELSE LET cos2 == Div(Mul(dot, dot), Mul(move2, speed2))
                  IN  ISqrt(FloorScaled(cos2, 6)) \div 10

IClip(v, lo, hi) == IF v < lo THEN lo ELSE IF v > hi THEN hi ELSE v

REWARD_MIN == -2000
REWARD_MAX == 1500

\* compute_reward with the penalties subtracted instead of added and the final
\* clip left out.
compute_reward_unclipped(has_person, head_y, waist_y, speaker_x, cx, cy, cw, ch, action, prev, prev_prev, velocity_x, velocity_y) ==
    framing_reward(head_y, waist_y, cy, ch, has_person)
      - jitter_penalty(action, prev, prev_prev)
      - head_cutoff_penalty(head_y, cy, ch, has_person)
      + rule_of_thirds_bonus(speaker_x, cx, cw, has_person)
      + anticipation_bonus(IF IsNone(action) THEN Zero ELSE action[1],
                           IF IsNone(action) THEN Zero ELSE action[2],
                           velocity_x, velocity_y, has_person)

compute_reward(has_person, head_y, waist_y, speaker_x, cx, cy, cw, ch, action, prev, prev_prev, velocity_x, velocity_y) ==
    LET r == framing_reward(head_y, waist_y, cy, ch, has_person)
             + jitter_penalty(action, prev, prev_prev)
             + head_cutoff_penalty(head_y, cy, ch, has_person)
             + rule_of_thirds_bonus(speaker_x, cx, cw, has_person)
             + anticipation_bonus(IF IsNone(action) THEN Zero ELSE action[1],
                                  IF IsNone(action) THEN Zero ELSE action[2],
                                  velocity_x, velocity_y, has_person)
    IN  IClip(r, REWARD_MIN, REWARD_MAX)

-----------------------------------------------------------------------------
(* cinematic_env.py: CinematicFramingEnv.                                  *)

\* A step that passes the action on unclipped.
ClipAction_identity(action) == action

\* np.clip(np.asarray(action), -1.0, 1.0), component-wise.
ClipAction(action) ==
    <<NpClip(action[1], Neg(One), One),
      NpClip(action[2], Neg(One), One),
      NpClip(action[3], Neg(One), One)>>

\* _apply_action with the origin moved but not clamped to the canvas.
apply_action_unclamped(cx, cy, z, action) ==
    LET zoom1 == NpClip(Add(z, Mul(action[3], MAX_ZOOM_SPEED)), One, MAX_ZOOM)
        over == Lt(One, Mul(Div(One, zoom1), ASPECT_RATIO))
        w2 == IF over THEN One ELSE Mul(Div(One, zoom1), ASPECT_RATIO)
        h2 == IF over THEN Div(One, ASPECT_RATIO) ELSE Div(One, zoom1)
    IN  [x |-> Add(cx, Mul(action[1], MAX_PAN_SPEED)),
         y |-> Add(cy, Mul(action[2], MAX_TILT_SPEED)),
         w |-> w2, h |-> h2, zoom |-> IF over THEN Div(One, h2) ELSE zoom1]

\* _apply_action with the zoom left as clipped when the width is cut to 1.
apply_action_zoom_kept(cx, cy, z, action) ==
    LET zoom1 == NpClip(Add(z, Mul(action[3], MAX_ZOOM_SPEED)), One, MAX_ZOOM)
        over == Lt(One, Mul(Div(One, zoom1), ASPECT_RATIO))
        w2 == IF over THEN One ELSE Mul(Div(One, zoom1), ASPECT_RATIO)
        h2 == IF over THEN Div(One, ASPECT_RATIO) ELSE Div(One, zoom1)
    IN  [x |-> NpClip(Add(cx, Mul(action[1], MAX_PAN_SPEED)), Zero, Sub(One, w2)),
         y |-> NpClip(Add(cy, Mul(action[2], MAX_TILT_SPEED)), Zero, Sub(One, h2)),
         w |-> w2, h |-> h2, zoom |-> zoom1]

\* _apply_action: the crop state after applying a (clipped) action to the crop
\* state (cx, cy, z); crop_w and crop_h are re-derived from the zoom.
apply_action(cx, cy, z, action) ==
    LET dx == Mul(action[1], MAX_PAN_SPEED)
        dy == Mul(action[2], MAX_TILT_SPEED)
        dz == Mul(action[3], MAX_ZOOM_SPEED)
        zoom1 == NpClip(Add(z, dz), One, MAX_ZOOM)
        h1 == Div(One, zoom1)
        w1 == Mul(h1, ASPECT_RATIO)
        over == Lt(One, w1)
        w2 == IF over THEN One ELSE w1
        h2 == IF over THEN Div(w2, ASPECT_RATIO) ELSE h1
        zoom2 == IF over THEN Div(One, h2) ELSE zoom1
    IN  [x |-> NpClip(Add(cx, dx), Zero, Sub(One, w2)),
         y |-> NpClip(Add(cy, dy), Zero, Sub(One, h2)),
         w |-> w2, h |-> h2, zoom |-> zoom2]

\* _build_observation with the relative head/waist positions left unclipped.
build_observation_unclipped(frame, cx, cy, cw, ch, z, vel_x, vel_y) ==
    LET speaker == frame.speaker
        keypoints == frame.keypoints
        has_person == IF IsNone(speaker) THEN Zero ELSE One
        head_y == IF IsNone(keypoints) THEN Zero ELSE keypoints.head_y
        waist_y == IF IsNone(keypoints) THEN Zero ELSE keypoints.waist_y
        rel == Lt(MIN_CROP, ch) /\ Lt(Q(1, 2), has_person)
    IN  <<has_person,
          IF IsNone(speaker) THEN Zero ELSE speaker.x,
          IF IsNone(speaker) THEN Zero ELSE speaker.y,
          IF IsNone(speaker) THEN Zero ELSE RMin(Div(speaker.z, Q(10, 1)), One),
          IF IsNone(keypoints) THEN Zero ELSE keypoints.head_x,
          head_y,
          IF IsNone(keypoints) THEN Zero ELSE keypoints.waist_x,
          waist_y,
          cx, cy, cw, ch, RMin(Div(z, MAX_ZOOM), One), vel_x, vel_y,
          IF rel THEN Div(Sub(head_y, cy), ch) ELSE Zero,
          IF rel THEN Div(Sub(waist_y, cy), ch) ELSE Zero,
          IF IsNone(keypoints) THEN Zero ELSE keypoints.pose_confidence>>

\* _build_observation: the 18-element vector for a frame and a crop state.
build_observation(frame, cx, cy, cw, ch, z, vel_x, vel_y) ==
    LET speaker == frame.speaker
        keypoints == frame.keypoints
        has_person == IF IsNone(speaker) THEN Zero ELSE One
        sp_x == IF IsNone(speaker) THEN Zero ELSE speaker.x
        sp_y == IF IsNone(speaker) THEN Zero ELSE speaker.y
        sp_z == IF IsNone(speaker) THEN Zero ELSE RMin(Div(speaker.z, Q(10, 1)), One)
        head_x == IF IsNone(keypoints) THEN Zero ELSE keypoints.head_x
        head_y == IF IsNone(keypoints) THEN Zero ELSE keypoints.head_y
        waist_x == IF IsNone(keypoints) THEN Zero ELSE keypoints.waist_x
        waist_y == IF IsNone(keypoints) THEN Zero ELSE keypoints.waist_y
        pose_conf == IF IsNone(keypoints) THEN Zero ELSE keypoints.pose_confidence
        zoom_norm == RMin(Div(z, MAX_ZOOM), One)
        rel == Lt(MIN_CROP, ch) /\ Lt(Q(1, 2), has_person)
        head_rel_y == IF rel THEN NpClip(Div(Sub(head_y, cy), ch), Zero, One) ELSE Zero
        waist_rel_y == IF rel THEN NpClip(Div(Sub(waist_y, cy), ch), Zero, One) ELSE Zero
    IN  <<has_person, sp_x, sp_y, sp_z, head_x, head_y, waist_x, waist_y,
          cx, cy, cw, ch, zoom_norm, vel_x, vel_y, head_rel_y, waist_rel_y, pose_conf>>

\* An episode-length range that ignores min_episode_len.
EpLenRange_nomin(options, total) == 1..total

\* The episode-length range reset draws from under the given options:
\* np_random.integers(min(min_len, total), min(total, max_len) + 1).
EpLenRange(options, total) ==
    LET min_len == IF IsNone(options) THEN DEFAULT_MIN_LEN
                   ELSE Get(options, "min_episode_len", DEFAULT_MIN_LEN)
        max_len == IF IsNone(options) THEN DEFAULT_MAX_LEN
                   ELSE Get(options, "max_episode_len", DEFAULT_MAX_LEN)
        lo == IF min_len < total THEN min_len ELSE total
        hi == IF total < max_len THEN total ELSE max_len
    IN  lo..hi

\* The engine's episode fields and what its last call returned, as one record.
EngineState ==
    [fps |-> fps, current_frames |-> current_frames, step_idx |-> step_idx,
     crop_x |-> crop_x, crop_y |-> crop_y, crop_w |-> crop_w, crop_h |-> crop_h,
     zoom |-> zoom, prev_action |-> prev_action, prev_prev_action |-> prev_prev_action,
     prev_speaker_x |-> prev_speaker_x, prev_speaker_y |-> prev_speaker_y,
     ret |-> ret, nsteps |-> nsteps]

\* The engine takes the fields of record r.
Assign(r) ==
    /\ fps' = r.fps
    /\ current_frames' = r.current_frames
    /\ step_idx' = r.step_idx
    /\ crop_x' = r.crop_x
    /\ crop_y' = r.crop_y
    /\ crop_w' = r.crop_w
    /\ crop_h' = r.crop_h
    /\ zoom' = r.zoom
    /\ prev_action' = r.prev_action
    /\ prev_prev_action' = r.prev_prev_action
    /\ prev_speaker_x' = r.prev_speaker_x
    /\ prev_speaker_y' = r.prev_speaker_y
    /\ ret' = r.ret
    /\ nsteps' = r.nsteps

\* A reset that leaves the action history of the earlier episode in place.
reset_history_kept(st) ==
    [prev_action |-> st.prev_action, prev_prev_action |-> st.prev_prev_action]
\* reset lines 129-131: the action history is emptied.
reset_history(st) == [prev_action |-> None, prev_prev_action |-> None]

\* reset(seed, options) on an engine in state st: the random draws (session,
\* episode length, start) are the parameters sid, ep_len, start.
reset_result(st, sid, ep_len, start) ==
    LET slice == [sid |-> sid, start |-> start, len |-> ep_len]
        first == FrameAt(slice, 0)
        crop == first.current_crop
        speaker == first.speaker
        cx == Get(crop, "x", Zero)
        cy == Get(crop, "y", Zero)
        cw == Get(crop, "w", One)
        ch == Get(crop, "h", One)
        z == Get(crop, "zoom", One)
        history == reset_history(st)
    IN  [fps |-> SessionFps(sid),
         current_frames |-> slice,
         step_idx |-> 0,
         crop_x |-> cx, crop_y |-> cy, crop_w |-> cw, crop_h |-> ch, zoom |-> z,
         prev_action |-> history.prev_action,
         prev_prev_action |-> history.prev_prev_action,
         prev_speaker_x |-> IF IsNone(speaker) THEN None ELSE speaker.x,
         prev_speaker_y |-> IF IsNone(speaker) THEN None ELSE speaker.y,
         ret |-> [call |-> "reset",
                  obs |-> build_observation(first, cx, cy, cw, ch, z, Zero, Zero),
                  info |-> [session_id |-> sid, episode_length |-> ep_len,
                            source |-> SessionSource(sid)]],
         nsteps |-> 0]

\* reset on the engine, with the draws idx, ep_len, start.
ResetWith(idx, ep_len, start) ==
    /\ \E r \in {reset_result(EngineState, sessions[idx], ep_len, start)} : Assign(r)
    /\ UNCHANGED <<sessions, twin, reset_options, canvasVars, expertVars, pure_call>>

Reset(optionSet) ==
    \E idx \in 1..Len(sessions) :
        LET total == Len(SessionFrames(sessions[idx]))
        IN  \E ep_len \in {n \in 1..total :
                              \E options \in optionSet : n \in EpLenRange(options, total)} :
                \E start \in 0..(total - ep_len) :     \* integers(0, total - ep_len + 1)
                    ResetWith(idx, ep_len, start)

\* The speaker velocity step derives: fps-scaled difference, clipped per axis.
Velocity(speaker, px, py, f) ==
    IF ~IsNone(speaker) /\ ~IsNone(px)
    THEN <<NpClip(Mul(Sub(speaker.x, px), Q(f, 1)), Neg(One), One),
           NpClip(Mul(Sub(speaker.y, py), Q(f, 1)), Neg(One), One)>>
    ELSE <<Zero, Zero>>

\* The truncation test one frame early.
Truncated_early(advanced, len) == advanced >= len - 1

\* step's truncation test: the advanced pointer has left the slice.
Truncated(advanced, len) == advanced >= len

\* A frame pointer that wraps to the first frame once it has left the slice.
frame_pointer_wrapped(advanced, len) == IF Truncated(advanced, len) THEN 0 ELSE advanced

\* The frame pointer step keeps: the advanced one, set back to the last frame
\* of the slice when it has left it.
frame_pointer(advanced, len) ==
    IF Truncated(advanced, len) THEN len - 1 ELSE advanced

\* A person test that ignores the missing speaker.
reward_has_person_always(frame) == TRUE

\* The person inputs step extracts from the frame for compute_reward.
reward_has_person(frame) == ~IsNone(frame.speaker)
reward_head_y(frame) == IF IsNone(frame.keypoints) THEN Zero ELSE frame.keypoints.head_y
reward_waist_y(frame) == IF IsNone(frame.keypoints) THEN Zero ELSE frame.keypoints.waist_y
reward_speaker_x(frame) == IF IsNone(frame.speaker) THEN Zero ELSE frame.speaker.x

\* An action history that is shifted before the reward is computed.
reward_history_shifted(st, action) ==
    [prev_action |-> action, prev_prev_action |-> st.prev_action]

\* The action history compute_reward is given: self._prev_action and
\* self._prev_prev_action as they are before step updates them.
reward_history(st, action) ==
    [prev_action |-> st.prev_action, prev_prev_action |-> st.prev_prev_action]

\* step(action) on an engine in state st with a running episode.
step_result(st, raw) ==
    LET action == ClipAction(raw)
        c == apply_action(st.crop_x, st.crop_y, st.zoom, action)
        advanced == st.step_idx + 1
        truncated == Truncated(advanced, st.current_frames.len)
        idx == frame_pointer(advanced, st.current_frames.len)
        frame == FrameAt(st.current_frames, idx)
        speaker == frame.speaker
        has_person == reward_has_person(frame)
        head_y == reward_head_y(frame)
        waist_y == reward_waist_y(frame)
        speaker_x == reward_speaker_x(frame)
        vel == Velocity(speaker, st.prev_speaker_x, st.prev_speaker_y, st.fps)
        history == reward_history(st, action)
    IN  [fps |-> st.fps,
         current_frames |-> st.current_frames,
         step_idx |-> idx,
         crop_x |-> c.x, crop_y |-> c.y, crop_w |-> c.w, crop_h |-> c.h, zoom |-> c.zoom,
         prev_action |-> action,
         prev_prev_action |-> st.prev_action,
         prev_speaker_x |-> IF IsNone(speaker) THEN st.prev_speaker_x ELSE speaker.x,
         prev_speaker_y |-> IF IsNone(speaker) THEN st.prev_speaker_y ELSE speaker.y,
         ret |-> [call |-> "step",
                  obs |-> build_observation(frame, c.x, c.y, c.w, c.h, c.zoom,
                                            vel[1], vel[2]),
                  reward |-> compute_reward(has_person, head_y, waist_y, speaker_x,
                                            c.x, c.y, c.w, c.h, action,
                                            history.prev_action,
                                            history.prev_prev_action,
                                            vel[1], vel[2]),
                  terminated |-> FALSE,
                  truncated |-> truncated,
                  info |-> [frame_idx |-> st.current_frames.start + idx]],
         nsteps |-> st.nsteps + 1]

\* step(action) on the engine, called on a running episode.
Step(raw) ==
    /\ current_frames.len > 0
    /\ \E r \in {step_result(EngineState, raw)} : Assign(r)
    /\ UNCHANGED <<sessions, twin, reset_options, canvasVars, expertVars, pure_call>>

\* No frame-extraction run in progress: the defaults of its arguments.
CanvasIdle ==
    /\ zoom_range = <<Q(15, 10), Q(3, 1)>>
    /\ canvas_state = None
    /\ detection = None
    /\ embedding = None
    /\ output_idx = 0
    /\ init_calls = 0
    /\ crop_pos = None

\* No expert pair under derivation.
ExpertIdle == ideal_pair = None /\ expert = None

\* The engine fields __init__ leaves: a loaded pool and no episode.
InitEnv(pool) ==
    /\ sessions = pool
    /\ current_frames = EmptySlice
    /\ step_idx = 0
    /\ fps = DEFAULT_FPS
    /\ crop_x = Zero
    /\ crop_y = Zero
    /\ crop_w = One
    /\ crop_h = One
    /\ zoom = One
    /\ prev_action = None
    /\ prev_prev_action = None
    /\ prev_speaker_x = None
    /\ prev_speaker_y = None
    /\ ret = [call |-> "init"]
    /\ nsteps = 0
    /\ twin = None
    /\ reset_options = None
    /\ pure_call = None

InitWith(pool) == InitEnv(pool) /\ CanvasIdle /\ ExpertIdle

Init == InitWith(SmallPool)

ResetAny == Reset(OptionSet)
StepAny == \E raw \in ActionSet : nsteps < MaxSteps /\ Step(raw)

Next == ResetAny \/ StepAny

Spec == Init /\ [][Next]_vars

\* The scenario of test_env: the synthetic session alone in the pool, one
\* reset with default options, then step calls with the zero action.
ZeroAction == Act(Zero, Zero, Zero)
InitScenario == InitWith(<<"session_test">>)
ResetDefault == ret.call = "init" /\ Reset({None})
StepZero == nsteps < SYNTH_NUM_FRAMES /\ Step(ZeroAction)
NextScenario == ResetDefault \/ StepZero
SpecScenario == InitScenario /\ [][NextScenario]_vars

-----------------------------------------------------------------------------
(* The virtual canvas embedder (canvas.py) and the frame-extraction loop   *)
(* that drives it (extract_frames.py main).                                *)

\* Frames written per run (args.max_frames).
MaxFrames == 3

\* round(v, 6) of a non-negative v: the seventh decimal decides.
Round6(v) == Q((FloorScaled(v, 7) + 5) \div 10, 1000000)

flip_y(y) == Sub(One, y)
clamp(val, lo, hi) == RMax(lo, RMin(hi, val))
clamp01(val) == clamp(val, Zero, One)

CanvasState(z, ch, cw, ax, ay, fsx, fsy) ==
    [zoom |-> z, crop_h |-> ch, crop_w |-> cw,
     canvas_anchor_x |-> ax, canvas_anchor_y |-> ay,
     first_frame_sx |-> fsx, first_frame_sy |-> fsy]

\* detector.DetectionResult.  detect fills bbox, center (the bbox centre) and
\* bbox_height whenever has_person is true; head and waist may be None.
NoPerson ==
    [has_person |-> FALSE, bbox |-> None, center |-> None, bbox_height |-> None,
     confidence |-> None, head |-> None, waist |-> None, pose_confidence |-> None]
Person(bx, by, bw, bh, head, waist) ==
    [has_person |-> TRUE, bbox |-> <<bx, by, bw, bh>>,
     center |-> <<Add(bx, Div(bw, Q(2, 1))), Add(by, Div(bh, Q(2, 1)))>>,
     bbox_height |-> bh, confidence |-> Q(9, 10),
     head |-> head, waist |-> waist, pose_confidence |-> Q(8, 10)]

\* The detections a frame can yield: nobody; a speaker in the middle; the same
\* speaker moved left; a small speaker without head/waist landmarks; a speaker
\* near the lower right corner.
DetectionSet ==
    { NoPerson,
      Person(Q(3, 10), Q(2, 10), Q(4, 10), Q(6, 10),
             <<Q(5, 10), Q(25, 100)>>, <<Q(5, 10), Q(6, 10)>>),
      Person(Q(1, 10), Q(2, 10), Q(4, 10), Q(6, 10),
             <<Q(3, 10), Q(25, 100)>>, <<Q(3, 10), Q(6, 10)>>),
      Person(Q(45, 100), Q(4, 10), Q(1, 10), Q(2, 10), None, None),
      Person(Q(6, 10), Q(4, 10), Q(4, 10), Q(6, 10),
             <<Q(8, 10), Q(45, 100)>>, <<Q(8, 10), Q(8, 10)>>) }

\* The three rng.uniform draws of initialize_canvas: uniform(0.12, 0.22),
\* uniform(0.35, 0.65), uniform(0.30, 0.55).
DrawSet ==
    [target_canvas_bh : {Q(12, 100), Q(20, 100)},
     canvas_anchor_x : {Q(35, 100), Q(60, 100)},
     canvas_anchor_y : {Q(30, 100), Q(50, 100)}]
NoDraw == [target_canvas_bh |-> Zero, canvas_anchor_x |-> Zero, canvas_anchor_y |-> Zero]

\* (--zoom-min, --zoom-max): the defaults and a wider range.
ZoomRangeSet == { <<Q(15, 10), Q(3, 1)>>, <<Q(15, 10), Q(5, 1)>> }

\* initialize_canvas, the rng draws passed in.
initialize_canvas(det, draws, zr) ==
    LET bh == IF IsNone(det.bbox_height) \/ det.bbox_height = Zero
              THEN Q(3, 10) ELSE det.bbox_height
        z == NpClip(Div(bh, draws.target_canvas_bh), zr[1], zr[2])
        h0 == Inv(z)
        w0 == Mul(h0, ASPECT_RATIO)
        wide == Lt(One, w0)
        w1 == IF wide THEN One ELSE w0
        h1 == IF wide THEN Div(One, ASPECT_RATIO) ELSE h0
        c == IF IsNone(det.center) THEN <<Q(1, 2), Q(1, 2)>> ELSE det.center
    IN  CanvasState(z, h1, w1, draws.canvas_anchor_x, draws.canvas_anchor_y, c[1], c[2])

\* The crop origin that puts frame-local coordinate s at canvas_speaker:
\* crop + s * size = canvas_speaker.
crop_origin_placing_center(canvas_speaker, s, size) == Sub(canvas_speaker, Mul(Q(1, 2), size))
crop_origin(canvas_speaker, s, size) == Sub(canvas_speaker, Mul(s, size))

\* A crop position that follows the speaker: the canvas anchor is taken as the
\* speaker's canvas position on every frame.
compute_crop_position_following(det, state) ==
    IF ~det.has_person \/ IsNone(det.center)
    THEN [tracked |-> FALSE,
          crop_x |-> Div(Sub(One, state.crop_w), Q(2, 1)),
          crop_y |-> Div(Sub(One, state.crop_h), Q(2, 1))]
    ELSE LET raw_x == crop_origin(state.canvas_anchor_x, det.center[1], state.crop_w)
             raw_y == crop_origin(state.canvas_anchor_y, det.center[2], state.crop_h)
         IN  [tracked |-> TRUE,
              canvas_speaker_x |-> state.canvas_anchor_x,
              canvas_speaker_y |-> state.canvas_anchor_y,
              raw_x |-> raw_x,
              raw_y |-> raw_y,
              crop_x |-> clamp(raw_x, Zero, Sub(One, state.crop_w)),
              crop_y |-> clamp(raw_y, Zero, Sub(One, state.crop_h))]

\* _compute_crop_position: the returned origin (crop_x, crop_y) together with
\* the locals it was computed from.
compute_crop_position(det, state) ==
    IF ~det.has_person \/ IsNone(det.center)
    THEN [tracked |-> FALSE,
          crop_x |-> Div(Sub(One, state.crop_w), Q(2, 1)),
          crop_y |-> Div(Sub(One, state.crop_h), Q(2, 1))]
    ELSE LET sx == det.center[1]
             sy == det.center[2]
             delta_sx == Sub(sx, state.first_frame_sx)
             delta_sy == Sub(sy, state.first_frame_sy)
             canvas_speaker_x == Add(state.canvas_anchor_x, Mul(delta_sx, state.crop_w))
             canvas_speaker_y == Add(state.canvas_anchor_y, Mul(delta_sy, state.crop_h))
             raw_x == crop_origin(canvas_speaker_x, sx, state.crop_w)
             raw_y == crop_origin(canvas_speaker_y, sy, state.crop_h)
         IN  [tracked |-> TRUE,
              canvas_speaker_x |-> canvas_speaker_x,
              canvas_speaker_y |-> canvas_speaker_y,
              raw_x |-> raw_x,
              raw_y |-> raw_y,
              crop_x |-> clamp(raw_x, Zero, Sub(One, state.crop_w)),
              crop_y |-> clamp(raw_y, Zero, Sub(One, state.crop_h))]

\* embed_in_canvas line 114: a state is created only when none was passed in.
NeedsInit_every_person_frame(det, state) == det.has_person
NeedsInit(det, state) == IsNone(state) /\ det.has_person

\* An ideal crop that is always the whole canvas.
ideal_crop_full_canvas(crop) == [x |-> Zero, y |-> Zero, w |-> One, h |-> One, zoom |-> One]

\* IdealCropData(x=crop.x, y=crop.y, w=crop.w, h=crop.h, zoom=crop.zoom).
ideal_crop_of(crop) ==
    [x |-> crop.x, y |-> crop.y, w |-> crop.w, h |-> crop.h, zoom |-> crop.zoom]

\* embed_in_canvas when there is still no state: the centred default crop and
\* the temporary state.
embed_default(zr) ==
    LET h0 == Inv(Div(Add(zr[1], zr[2]), Q(2, 1)))
        default_crop_w == RMin(One, Mul(h0, ASPECT_RATIO))
        default_crop_h == IF Le(One, default_crop_w)
                          THEN Div(default_crop_w, ASPECT_RATIO) ELSE h0
        crop_x_mp == Div(Sub(One, default_crop_w), Q(2, 1))
        crop_y_mp == Div(Sub(One, default_crop_h), Q(2, 1))
        z == Inv(default_crop_h)
        crop == [x |-> Round6(crop_x_mp),
                 y |-> Round6(flip_y(Add(crop_y_mp, default_crop_h))),
                 w |-> Round6(default_crop_w),
                 h |-> Round6(default_crop_h),
                 zoom |-> Round6(z)]
    IN  [speaker |-> None, keypoints |-> None, crop |-> crop,
         ideal_crop |-> ideal_crop_of(crop),
         state |-> CanvasState(z, default_crop_h, default_crop_w,
                               Q(1, 2), Q(1, 2), Q(1, 2), Q(1, 2)),
         pos |-> None]

\* round(v, 6) of a double v >= 0.  A double that stands for a decimal tie
\* (seventh decimal 5, nothing after it) lies just above or just below the
\* tie, so round takes it up or down; every other value rounds as Round6.
IsRoundingTie(v) == v = Q(FloorScaled(v, 7), 10000000) /\ FloorScaled(v, 7) % 10 = 5
Round6Double(v, up) ==
    IF IsRoundingTie(v) /\ ~up THEN Sub(Round6(v), Q(1, 1000000)) ELSE Round6(v)

\* The side of a tie on which the origin's doubles fall: above, for both axes.
TieUp == [x |-> TRUE, y |-> TRUE]

\* embed_in_canvas with a state: coordinates moved from the frame into the
\* canvas, flipped to the Y-up system, clamped and rounded; side tells how
\* the rounding of the crop origin resolves a tie.
embed_rounding(det, state, side) ==
    LET pos == compute_crop_position(det, state)
        crop_x_mp == pos.crop_x
        crop_y_mp == pos.crop_y
        canvas_bx == Add(crop_x_mp, Mul(det.bbox[1], state.crop_w))
        canvas_by == Add(crop_y_mp, Mul(det.bbox[2], state.crop_h))
        canvas_bw == Mul(det.bbox[3], state.crop_w)
        canvas_bh == Mul(det.bbox[4], state.crop_h)
        cx_mp == Add(canvas_bx, Div(canvas_bw, Q(2, 1)))
        cy_mp == Add(canvas_by, Div(canvas_bh, Q(2, 1)))
        speaker ==
            IF det.has_person /\ ~IsNone(det.bbox)
            THEN [x |-> Round6(clamp01(cx_mp)),
                  y |-> Round6(clamp01(flip_y(cy_mp))),
                  z |-> Round6(IF Lt(Q(1, 100), canvas_bh) THEN Inv(canvas_bh) ELSE Zero),
                  bbox |-> <<Round6(clamp01(canvas_bx)),
                             Round6(clamp01(flip_y(Add(canvas_by, canvas_bh)))),
                             Round6(canvas_bw), Round6(canvas_bh)>>,
                  confidence |-> Round6(IF IsNone(det.confidence) THEN Zero
                                        ELSE det.confidence)]
            ELSE None
        keypoints ==
            IF det.has_person /\ ~IsNone(det.head) /\ ~IsNone(det.waist)
            THEN [head_x |-> Round6(clamp01(Add(crop_x_mp, Mul(det.head[1], state.crop_w)))),
                  head_y |-> Round6(clamp01(flip_y(
                                 Add(crop_y_mp, Mul(det.head[2], state.crop_h))))),
                  waist_x |-> Round6(clamp01(Add(crop_x_mp, Mul(det.waist[1], state.crop_w)))),
                  waist_y |-> Round6(clamp01(flip_y(
                                 Add(crop_y_mp, Mul(det.waist[2], state.crop_h))))),
                  pose_confidence |-> Round6(IF IsNone(det.pose_confidence) THEN Zero
                                             ELSE det.pose_confidence)]
            ELSE None
        z == IF Lt(Q(1, 100), state.crop_h) THEN Inv(state.crop_h) ELSE One
        crop == [x |-> Round6Double(clamp01(crop_x_mp), side.x),
                 y |-> Round6Double(clamp01(flip_y(Add(crop_y_mp, state.crop_h))), side.y),
                 w |-> Round6(state.crop_w),
                 h |-> Round6(state.crop_h),
                 zoom |-> Round6(z)]
    IN  [speaker |-> speaker, keypoints |-> keypoints, crop |-> crop,
         ideal_crop |-> ideal_crop_of(crop), state |-> state, pos |-> pos]

\* embed_in_canvas with a state, in exact arithmetic: ties round up.
embed_with_state(det, state) == embed_rounding(det, state, TieUp)

\* embed_in_canvas(detection, state, rng, zoom_range).
embed_in_canvas(det, state, draws, zr) ==
    LET state1 == IF NeedsInit(det, state) THEN initialize_canvas(det, draws, zr)
                  ELSE state
    IN  IF IsNone(state1) THEN embed_default(zr) ELSE embed_with_state(det, state1)

\* One pass of the loop of extract_frames.main over a processed frame:
\* detect, embed, keep embedding.state, write the observation.
ProcessFrame(det) ==
    /\ output_idx < MaxFrames
    /\ \E draws \in (IF NeedsInit(det, canvas_state) THEN DrawSet ELSE {NoDraw}) :
         \E e \in {embed_in_canvas(det, canvas_state, draws, zoom_range)} :
            /\ detection' = det
            /\ embedding' = [speaker |-> e.speaker, keypoints |-> e.keypoints,
                             crop |-> e.crop, ideal_crop |-> e.ideal_crop]
            /\ canvas_state' = e.state
            /\ crop_pos' = e.pos
            /\ init_calls' = IF NeedsInit(det, canvas_state) THEN init_calls + 1
                             ELSE init_calls
            /\ output_idx' = output_idx + 1
    /\ UNCHANGED <<zoom_range, envVars, expertVars, pure_call>>

\* The start of a run: arguments parsed, canvas_state = None, nothing written.
InitCanvas ==
    /\ InitEnv(<< >>)
    /\ ExpertIdle
    /\ zoom_range \in ZoomRangeSet
    /\ canvas_state = None
    /\ detection = None
    /\ embedding = None
    /\ output_idx = 0
    /\ init_calls = 0
    /\ crop_pos = None

NextCanvas == \E det \in DetectionSet : ProcessFrame(det)
SpecCanvas == InitCanvas /\ [][NextCanvas]_vars

-----------------------------------------------------------------------------
(* Expert-action derivation (bc_dataset.ExpertDataset._extract_pairs) and  *)
(* its replay through the engine's _apply_action.                          *)

\* Ideal crops of consecutive frames.  Each is a valid crop rectangle:
\* zoom = 1/h, w = min(1, h * 16/9), 0 <= x <= 1 - w, 0 <= y <= 1 - h (the
\* written values rounded to six decimals in one pair).
IdealCropSet ==
    { CropZ2,
      CropRec(Q(11, 100), Q(49, 100), Q(8, 9), Q(1, 2), Q(2, 1)),
      CropRec(Q(1, 10), Q(1, 2), Q(400, 459), Q(25, 51), Q(204, 100)),
      CropZ5,
      CropRec(Q(51, 100), Q(79, 100), Q(16, 45), Q(1, 5), Q(5, 1)),
      CropRec(Zero, Zero, One, One, One),
      CropRec(Zero, Q(1, 100), One, Q(2, 3), Q(3, 2)),
      CropRec(Q(2, 10), Q(3, 10), Q(592593, 1000000), Q(333333, 1000000), Q(3, 1)),
      CropRec(Q(21, 100), Q(31, 100), Q(592593, 1000000), Q(333333, 1000000), Q(3, 1)),
      CropZ4,
      CropZ18 }

\* The action (dx, dy, dz) before np.clip, without the division by the speed
\* constants.
raw_expert_action_unscaled(ideal_t, ideal_t1) ==
    <<Sub(Get(ideal_t1, "x", Zero), Get(ideal_t, "x", Zero)),
      Sub(Get(ideal_t1, "y", Zero), Get(ideal_t, "y", Zero)),
      Sub(Get(ideal_t1, "zoom", One), Get(ideal_t, "zoom", One))>>

\* (dx, dy, dz) of _extract_pairs before np.clip.
raw_expert_action(ideal_t, ideal_t1) ==
    <<Div(Sub(Get(ideal_t1, "x", Zero), Get(ideal_t, "x", Zero)), MAX_PAN_SPEED),
      Div(Sub(Get(ideal_t1, "y", Zero), Get(ideal_t, "y", Zero)), MAX_TILT_SPEED),
      Div(Sub(Get(ideal_t1, "zoom", One), Get(ideal_t, "zoom", One)), MAX_ZOOM_SPEED)>>

\* The derivation of one pair: action = np.clip([dx, dy, dz], -1, 1).
DeriveExpert ==
    /\ ~IsNone(ideal_pair)
    /\ IsNone(expert)
    /\ \E raw \in {raw_expert_action(ideal_pair.c0, ideal_pair.c1)} :
          expert' = [raw |-> raw, action |-> ClipAction(raw), applied |-> FALSE]
    /\ UNCHANGED <<envVars, canvasVars, ideal_pair, pure_call>>

\* _apply_action(action) on the engine, with the derived action.
ApplyExpert ==
    /\ ~IsNone(expert)
    /\ ~expert.applied
    /\ \E c \in {apply_action(crop_x, crop_y, zoom, expert.action)} :
          /\ crop_x' = c.x
          /\ crop_y' = c.y
          /\ crop_w' = c.w
          /\ crop_h' = c.h
          /\ zoom' = c.zoom
    /\ expert' = [expert EXCEPT !.applied = TRUE]
    /\ UNCHANGED <<sessions, current_frames, step_idx, fps, prev_action,
                   prev_prev_action, prev_speaker_x, prev_speaker_y, ret, nsteps, twin, reset_options,
                   canvasVars, ideal_pair, pure_call>>

\* A pair of consecutive ideal crops and an engine whose crop state is the
\* first of them.
InitRoundTrip ==
    /\ ideal_pair \in [c0 : IdealCropSet, c1 : IdealCropSet]
    /\ expert = None
    /\ CanvasIdle
    /\ sessions = SmallPool
    /\ current_frames = EmptySlice
    /\ step_idx = 0
    /\ fps = DEFAULT_FPS
    /\ crop_x = ideal_pair.c0.x
    /\ crop_y = ideal_pair.c0.y
    /\ crop_w = ideal_pair.c0.w
    /\ crop_h = ideal_pair.c0.h
    /\ zoom = ideal_pair.c0.zoom
    /\ prev_action = None
    /\ prev_prev_action = None
    /\ prev_speaker_x = None
    /\ prev_speaker_y = None
    /\ ret = [call |-> "init"]
    /\ nsteps = 0
    /\ twin = None
    /\ reset_options = None
    /\ pure_call = None

NextRoundTrip == DeriveExpert \/ ApplyExpert
SpecRoundTrip == InitRoundTrip /\ [][NextRoundTrip]_vars

-----------------------------------------------------------------------------
(* Claims about the episode engine.                                        *)

AfterStep == ret.call = "step"
AfterReset == ret.call = "reset"

\* C1: after reset, after every step call with any action, the crop lies inside
\* the canvas: x >= 0, y >= 0, x + w <= 1 and y + h <= 1.
C1_CropInsideCanvas ==
    AfterStep =>
        /\ Le(Zero, crop_x)
        /\ Le(Zero, crop_y)
        /\ Le(Add(crop_x, crop_w), One)
        /\ Le(Add(crop_y, crop_h), One)

\* A step whose pan was stopped by the right canvas edge and whose tilt by the
\* bottom edge.
C1_Witness ==
    /\ AfterStep
    /\ nsteps >= 2
    /\ Add(crop_x, crop_w) = One
    /\ Lt(Zero, crop_x)
    /\ crop_y = Zero

\* C2 (as claimed): after reset and after every step, zoom lies in [1, 4] and
\* crop_w = crop_h * 16/9, or crop_w = 1 when clamped.
C2_ZoomAndAspectAlways ==
    (AfterReset \/ AfterStep) =>
        /\ Le(One, zoom)
        /\ Le(zoom, MAX_ZOOM)
        /\ (crop_w = Mul(crop_h, ASPECT_RATIO) \/ crop_w = One)

\* C3: in an episode of L frames the k-th step call returns truncated = (k >= L),
\* so the first L-1 calls return false and the L-th true; terminated is always
\* false.
C3_TruncatesAtSliceEnd ==
    AfterStep =>
        /\ ret.terminated = FALSE
        /\ (nsteps < current_frames.len => ret.truncated = FALSE)
        /\ (nsteps = current_frames.len => ret.truncated = TRUE)

\* The L-th step call of a three-frame episode, which truncates it.
C3_Witness ==
    /\ AfterStep
    /\ current_frames.len = 3
    /\ nsteps = 3
    /\ ret.truncated = TRUE
    /\ step_idx = 2

\* C4 as stated: one 100-frame session, default reset options, zero actions:
\* truncated is false on each of the first 99 step calls and true on the 100th,
\* and every reward lies in [-2, 1.5].
C4_TruncatesAtHundredthCall ==
    AfterStep =>
        /\ (nsteps < SYNTH_NUM_FRAMES => ret.truncated = FALSE)
        /\ (nsteps = SYNTH_NUM_FRAMES => ret.truncated = TRUE)
        /\ REWARD_MIN <= ret.reward /\ ret.reward <= REWARD_MAX

\* C4 amended: in that scenario reset draws an episode length L with
\* 60 <= L <= 100; truncated is false on each of the first L-1 step calls and
\* true from the L-th call on, and every reward lies in [-2, 1.5].
C4_TruncatesAtDrawnLength ==
    /\ AfterReset =>
          /\ ret.info.episode_length = current_frames.len
          /\ DEFAULT_MIN_LEN <= current_frames.len
          /\ current_frames.len <= SYNTH_NUM_FRAMES
    /\ AfterStep =>
          /\ DEFAULT_MIN_LEN <= current_frames.len
          /\ current_frames.len <= SYNTH_NUM_FRAMES
          /\ ret.truncated = (nsteps >= current_frames.len)
          /\ ret.terminated = FALSE
          /\ REWARD_MIN <= ret.reward /\ ret.reward <= REWARD_MAX

\* The 60th zero-action step of a 60-frame episode of the synthetic session:
\* it truncates, forty calls before the 100th.
C4_Witness ==
    /\ AfterStep
    /\ sessions = <<"session_test">>
    /\ current_frames.len = DEFAULT_MIN_LEN
    /\ nsteps = DEFAULT_MIN_LEN
    /\ ret.truncated = TRUE
    /\ prev_action = ZeroAction

\* C5: the reward every step call returns lies within [-2.0, 1.5] (thousandths:
\* [-2000, 1500]); being an integer of the model it is finite.
C5_RewardInRange ==
    AfterStep => (ret.reward \in Int /\ REWARD_MIN <= ret.reward /\ ret.reward <= REWARD_MAX)

\* A third step (jitter history complete) on a frame whose head is cut off, and
\* a step with a positive reward.
C5_Witness ==
    /\ AfterStep
    /\ nsteps = 3
    /\ ~IsNone(prev_prev_action)
    /\ ret.reward < -1000

\* C6: every observation returned by reset and step has 18 elements, velocity
\* (elements 13 and 14, counted from 0) in [-1, 1] and all others in [0, 1].
C6_ObservationInBox ==
    (AfterReset \/ AfterStep) =>
        /\ Len(ret.obs) = 18
        /\ \A i \in 1..18 :
              /\ Le(ret.obs[i], One)
              /\ Le(IF i \in {14, 15} THEN Neg(One) ELSE Zero, ret.obs[i])

\* A step whose velocity was clipped to 1 and whose head lies above the crop.
C6_Witness ==
    /\ AfterStep
    /\ ret.obs[1] = One
    /\ ret.obs[14] = One
    /\ ret.obs[16] = One

-----------------------------------------------------------------------------
(* Claims about the canvas embedder and the frame-extraction loop.         *)

\* C7: once initialize_canvas has set zoom, crop_w and crop_h, every later
\* embed call returns a state with the same three values and emits a crop
\* with the same w, h and zoom as the frame before, whoever is in the frame.
C7_CanvasLockedAfterInit ==
    [][init_calls >= 1 =>
          /\ canvas_state'.zoom = canvas_state.zoom
          /\ canvas_state'.crop_w = canvas_state.crop_w
          /\ canvas_state'.crop_h = canvas_state.crop_h
          /\ embedding'.crop.w = embedding.crop.w
          /\ embedding'.crop.h = embedding.crop.h
          /\ embedding'.crop.zoom = embedding.crop.zoom]_vars

\* A run whose first frame initialised a canvas clamped to full width (the
\* state's zoom differs from the emitted one), followed by a frame with a
\* speaker elsewhere and a frame without a person.
C7_Witness ==
    /\ init_calls = 1
    /\ output_idx = 3
    /\ ~detection.has_person
    /\ canvas_state.crop_w = One
    /\ canvas_state.zoom # embedding.crop.zoom
    /\ embedding.crop.w = One

\* C9: the temporary state of person-less leading frames is not kept as the
\* canvas, so that the first frame with a person runs initialize_canvas: after
\* any frame with a person initialize_canvas has run exactly once.
C9_InitOnFirstPersonFrame ==
    (~IsNone(detection) /\ detection.has_person) => init_calls = 1

\* C10 as stated: on a person frame of an initialised canvas where the origin
\* clamp does not bind, the speaker's position relative to the crop equals its
\* value at the anchor frame, (first_frame_sx, first_frame_sy).
ClampBinds == crop_pos.crop_x # crop_pos.raw_x \/ crop_pos.crop_y # crop_pos.raw_y
RelativeX == Div(Sub(crop_pos.canvas_speaker_x, crop_pos.crop_x), canvas_state.crop_w)
RelativeY == Div(Sub(crop_pos.canvas_speaker_y, crop_pos.crop_y), canvas_state.crop_h)
Tracking == ~IsNone(crop_pos) /\ crop_pos.tracked
C10_RelativeOffsetAsAtAnchor ==
    (init_calls = 1 /\ Tracking /\ ~ClampBinds) =>
        /\ RelativeX = canvas_state.first_frame_sx
        /\ RelativeY = canvas_state.first_frame_sy

\* C10 amended: on such a frame the speaker's position relative to the crop is
\* the speaker's centre in the current frame, and the crop origin is
\* anchor - first_frame_centre * crop_size whatever the speaker's movement.
C10_RelativeOffsetIsFrameCenter ==
    (Tracking /\ ~ClampBinds) =>
        /\ RelativeX = detection.center[1]
        /\ RelativeY = detection.center[2]
        /\ crop_pos.crop_x = Sub(canvas_state.canvas_anchor_x,
                                 Mul(canvas_state.first_frame_sx, canvas_state.crop_w))
        /\ crop_pos.crop_y = Sub(canvas_state.canvas_anchor_y,
                                 Mul(canvas_state.first_frame_sy, canvas_state.crop_h))

\* A later frame of an initialised canvas whose speaker has moved away from
\* the anchor-frame centre, the clamp not binding.
C10_Witness ==
    /\ init_calls = 1
    /\ output_idx >= 2
    /\ Tracking
    /\ ~ClampBinds
    /\ detection.center[1] # canvas_state.first_frame_sx
    /\ detection.center[2] # canvas_state.first_frame_sy

-----------------------------------------------------------------------------
(* Claims about the expert-action round trip.                              *)

\* Tolerance of the comparison: the six decimals the crops are written with.
RT_TOL == Q(1, 1000000)
Close(a, b) == Le(RAbs(Sub(a, b)), RT_TOL)
Applied == ~IsNone(expert) /\ expert.applied
NotClamped == expert.action = expert.raw
ReproducesC1 ==
    /\ Close(crop_x, ideal_pair.c1.x)
    /\ Close(crop_y, ideal_pair.c1.y)
    /\ Close(crop_w, ideal_pair.c1.w)
    /\ Close(crop_h, ideal_pair.c1.h)
    /\ Close(zoom, ideal_pair.c1.zoom)

\* C8 as stated: for valid crops c0, c1, the action derived from (c0, c1) and
\* applied from c0 gives the crop state c1 whenever no action component was
\* clamped.
C8_RoundTripUnlessActionClamped ==
    (Applied /\ NotClamped) => ReproducesC1

\* C8 amended: it does so when moreover c1.zoom lies within the zoom range
\* _apply_action can hold, 16/9 <= c1.zoom <= 4.
C8_RoundTripWithinZoomRange ==
    (Applied /\ NotClamped /\ Le(ASPECT_RATIO, ideal_pair.c1.zoom)
                           /\ Le(ideal_pair.c1.zoom, MAX_ZOOM)) => ReproducesC1

\* A pan, tilt and zoom between two different crops, replayed without any
\* clamping of the action.
C8_Witness ==
    /\ Applied
    /\ NotClamped
    /\ ideal_pair.c0.x # ideal_pair.c1.x
    /\ ideal_pair.c0.y # ideal_pair.c1.y
    /\ ideal_pair.c0.zoom # ideal_pair.c1.zoom
    /\ ReproducesC1

-----------------------------------------------------------------------------
(* Claims about step's velocity, reward terms and failure handling.        *)

\* The frame a step call landed on and the frame before it in the slice.
CurFrame == FrameAt(current_frames, step_idx)
PrevFrame == FrameAt(current_frames, step_idx - 1)
\* A step call that moved the frame pointer by one (not a truncating call).
Advancing == AfterStep /\ ~ret.truncated /\ step_idx >= 1

\* C11: in step the velocity (observation elements 13, 14) is (0, 0) whenever
\* the current or the immediately preceding frame has no speaker; otherwise it
\* is the fps-scaled difference of the two frames' speaker centres, clipped to
\* [-1, 1] per axis.
C11_VelocityFromAdjacentFrames ==
    Advancing =>
        <<ret.obs[14], ret.obs[15]>> =
            IF IsNone(CurFrame.speaker) \/ IsNone(PrevFrame.speaker)
            THEN <<Zero, Zero>>
            ELSE <<NpClip(Mul(Sub(CurFrame.speaker.x, PrevFrame.speaker.x), Q(fps, 1)),
                          Neg(One), One),
                   NpClip(Mul(Sub(CurFrame.speaker.y, PrevFrame.speaker.y), Q(fps, 1)),
                          Neg(One), One)>>

\* The reward terms of the last step call, from the inputs step passed.
FramingTerm ==
    framing_reward(reward_head_y(CurFrame), reward_waist_y(CurFrame), crop_y, crop_h,
                   reward_has_person(CurFrame))
HeadCutoffTerm ==
    head_cutoff_penalty(reward_head_y(CurFrame), crop_y, crop_h, reward_has_person(CurFrame))
ThirdsTerm ==
    rule_of_thirds_bonus(reward_speaker_x(CurFrame), crop_x, crop_w,
                         reward_has_person(CurFrame))
AnticipationTerm ==
    anticipation_bonus(prev_action[1], prev_action[2], ret.obs[14], ret.obs[15],
                       reward_has_person(CurFrame))

\* C12: on a frame without keypoints (a speaker present or not) the framing
\* reward and the head-cutoff penalty contribute 0 to the step reward, and on a
\* frame without a speaker all four person-dependent terms contribute 0.
C12_AbsentDataIsNeutral ==
    AfterStep =>
        /\ IsNone(CurFrame.keypoints) => (FramingTerm = 0 /\ HeadCutoffTerm = 0)
        /\ IsNone(CurFrame.speaker) =>
              (FramingTerm = 0 /\ HeadCutoffTerm = 0 /\ ThirdsTerm = 0
                 /\ AnticipationTerm = 0)

-----------------------------------------------------------------------------
(* initialize_canvas on the whole of its input type: a DetectionResult     *)
(* whose optional geometry fields may be missing.                          *)

\* A DetectionResult with has_person set and the given (possibly None) center
\* and bbox_height.
PersonWith(center, bbox_height) ==
    [has_person |-> TRUE, bbox |-> None, center |-> center, bbox_height |-> bbox_height,
     confidence |-> Q(9, 10), head |-> None, waist |-> None, pose_confidence |-> None]

InitInputSet ==
    (DetectionSet \ {NoPerson})
    \cup { PersonWith(None, None),
           PersonWith(None, Q(6, 10)),
           PersonWith(<<Q(3, 10), Q(5, 10)>>, None),
           PersonWith(<<Q(3, 10), Q(5, 10)>>, Zero) }

\* A call initialize_canvas(detection, rng, zoom_range) that returns.
CallInitializeCanvas ==
    /\ init_calls = 0
    /\ \E draws \in DrawSet :
          canvas_state' = initialize_canvas(detection, draws, zoom_range)
    /\ init_calls' = 1
    /\ UNCHANGED <<zoom_range, detection, embedding, output_idx, crop_pos,
                   envVars, expertVars, pure_call>>

InitCanvasInit ==
    /\ InitEnv(<< >>)
    /\ ExpertIdle
    /\ zoom_range \in ZoomRangeSet
    /\ detection \in InitInputSet
    /\ canvas_state = None
    /\ embedding = None
    /\ output_idx = 0
    /\ init_calls = 0
    /\ crop_pos = None

NextCanvasInit == CallInitializeCanvas
SpecCanvasInit == InitCanvasInit /\ [][NextCanvasInit]_vars

\* A returned canvas state, as opposed to a reported configuration error.
IsCanvasState(v) == DOMAIN v = DOMAIN CanvasState(One, One, One, Zero, Zero, Zero, Zero)

\* C13: when the detection lacks bbox_height or center, initialize_canvas
\* reports a configuration error instead of producing a CanvasState.
C13_MissingGeometryIsFatal ==
    (init_calls = 1 /\ (IsNone(detection.bbox_height) \/ IsNone(detection.center)))
        => ~IsCanvasState(canvas_state)

-----------------------------------------------------------------------------
(* Construction of the engine: CinematicFramingEnv.__init__ over the       *)
(* session directories scan_sessions finds.                                *)

\* Session directories in the order scan_sessions returns them (by id).
SessionOrder ==
    <<"session_a", "session_b", "session_c", "session_d", "session_e", "session_sparse",
      "session_test">>

\* Contents of the data directories: none, two-frame sessions only, three-frame
\* sessions only, one of each.
DiskSet ==
    { {}, {"session_b", "session_e"}, {"session_a", "session_c"},
      {"session_a", "session_b"} }

\* min_session_frames: two thresholds the short sessions can meet, and the
\* default 30.
DEFAULT_MIN_SESSION_FRAMES == 30
MinFramesSet == {2, 3, DEFAULT_MIN_SESSION_FRAMES}

\* scan_sessions(dirs, min_frames): the sessions with enough frames, by id.
scan_sessions(disk, min_frames) ==
    LET usable(sid) == sid \in disk /\ Len(SessionFrames(sid)) >= min_frames
    IN  SelectSeq(SessionOrder, usable)

\* A constructor that never raises.
ConstructionFails_never(pool) == FALSE
\* __init__ line 59: if not self._sessions: raise ValueError(...).
ConstructionFails(pool) == pool = << >>

NO_SESSIONS_ERROR == "ValueError: No valid sessions found in data_dirs"

\* Before the constructor call: no engine object.
NotConstructed == [call |-> "none"]
Raised == "raised" \in DOMAIN ret
EngineExists == ret.call # "none" /\ ~Raised

\* CinematicFramingEnv(data_dirs, min_session_frames).
Construct(disk, min_frames) ==
    /\ ret = NotConstructed
    /\ \E pool \in {scan_sessions(disk, min_frames)} :
          IF ConstructionFails(pool)
          THEN /\ ret' = [call |-> "init", scanned |-> disk, raised |-> NO_SESSIONS_ERROR]
               /\ UNCHANGED sessions
          ELSE /\ ret' = [call |-> "init", scanned |-> disk]
               /\ sessions' = pool
    /\ UNCHANGED <<current_frames, step_idx, fps, crop_x, crop_y, crop_w, crop_h, zoom,
                   prev_action, prev_prev_action, prev_speaker_x, prev_speaker_y, nsteps,
                   twin, reset_options, canvasVars, expertVars, pure_call>>

InitConstruct ==
    /\ sessions = << >>
    /\ current_frames = EmptySlice
    /\ step_idx = 0
    /\ fps = DEFAULT_FPS
    /\ crop_x = Zero
    /\ crop_y = Zero
    /\ crop_w = One
    /\ crop_h = One
    /\ zoom = One
    /\ prev_action = None
    /\ prev_prev_action = None
    /\ prev_speaker_x = None
    /\ prev_speaker_y = None
    /\ ret = NotConstructed
    /\ nsteps = 0
    /\ twin = None
    /\ reset_options = None
    /\ pure_call = None
    /\ CanvasIdle
    /\ ExpertIdle

ConstructAny == \E disk \in DiskSet : \E min_frames \in MinFramesSet : Construct(disk, min_frames)
ResetEngine == EngineExists /\ ResetAny
StepEngine == EngineExists /\ StepAny
NextConstruct == ConstructAny \/ ResetEngine \/ StepEngine
SpecConstruct == InitConstruct /\ [][NextConstruct]_vars

\* C14: a construction whose scan yields no usable session raises at once an
\* error naming the missing sessions, and then there is no engine: no session
\* pool, no episode, and no reset or step ever follows.
C14_NoEngineWithoutSessions ==
    /\ []((ret.call # "none" /\ sessions = << >>) =>
             (Raised /\ ret.raised = NO_SESSIONS_ERROR))
    /\ [](Raised => (sessions = << >> /\ current_frames = EmptySlice /\ nsteps = 0))
    /\ [](ret.call \in {"reset", "step"} => Len(sessions) >= 1)
    /\ [][~Raised]_vars

\* A construction that failed although session directories exist: all of them
\* are shorter than min_session_frames.
C14_Witness ==
    /\ Raised
    /\ ret.scanned # {}
    /\ sessions = << >>

-----------------------------------------------------------------------------
(* Episodes over a session with sparse detections: two person-less frames  *)
(* in a row, a frame with keypoints only, one with a speaker only and one  *)
(* with both.                                                              *)

InitSparse == InitWith(<<"session_sparse">>)
SpecSparse == InitSparse /\ [][Next]_vars

IsNumber(q) == DOMAIN q = {1, 2} /\ q[1] \in Int /\ q[2] \in Nat \ {0}

\* C15: on every frame, whatever the presence of speaker and keypoints, step
\* returns an 18-number observation, a reward within the reward range and the
\* two flags; a frame without a speaker yields the default values (person and
\* velocity elements 0, no person-dependent reward); and no step ends the
\* episode before the slice end: each call advances the frame pointer by one
\* until the last frame of the slice.
C15_StepAbsorbsSparseDetections ==
    /\ [](AfterStep =>
            /\ Len(ret.obs) = 18
            /\ \A i \in 1..18 : IsNumber(ret.obs[i])
            /\ ret.reward \in REWARD_MIN..REWARD_MAX
            /\ ret.terminated = FALSE
            /\ ret.truncated \in BOOLEAN
            /\ ret.truncated => nsteps >= current_frames.len
            /\ IsNone(CurFrame.speaker) =>
                  /\ \A i \in {1, 2, 3, 4, 14, 15, 16, 17} : ret.obs[i] = Zero
                  /\ nsteps <= 2 => ret.reward = 0)
    /\ [][nsteps' = nsteps + 1 =>
            step_idx' = IF step_idx + 1 < current_frames.len THEN step_idx + 1
                        ELSE current_frames.len - 1]_vars

\* The third step of an episode that began on two person-less frames and then
\* met a frame with keypoints but no speaker, the episode still running.
C15_Witness ==
    /\ AfterStep
    /\ current_frames = [sid |-> "session_sparse", start |-> 0, len |-> 5]
    /\ nsteps = 2
    /\ step_idx = 2
    /\ IsNone(CurFrame.speaker)
    /\ ~IsNone(CurFrame.keypoints)
    /\ IsNone(PrevFrame.speaker)
    /\ ~ret.truncated

-----------------------------------------------------------------------------
(* Claims about the action history.                                        *)

\* The person-dependent terms of a step call that landed on the given frame,
\* summed, and those of the last step call.
PersonTermsOf(frame, cx, cy, cw, ch, action, vx, vy) ==
    framing_reward(reward_head_y(frame), reward_waist_y(frame), cy, ch,
                   reward_has_person(frame))
      + head_cutoff_penalty(reward_head_y(frame), cy, ch, reward_has_person(frame))
      + rule_of_thirds_bonus(reward_speaker_x(frame), cx, cw, reward_has_person(frame))
      + anticipation_bonus(action[1], action[2], vx, vy, reward_has_person(frame))
PersonTerms == FramingTerm + HeadCutoffTerm + ThirdsTerm + AnticipationTerm
\* A transition that is a step call / a reset call.
IsStepCall == nsteps' = nsteps + 1
IsResetCall == ret'.call = "reset"

\* C16: every reset, also one issued in the middle of an episode, empties the
\* action history; the jitter penalty contributes 0 to the reward of the first
\* two step calls after it, and from the third call on it is the jerk of the
\* current action and the two actions before it in the same episode.
C16_JitterNeedsThreeActions ==
    /\ [][IsResetCall => (prev_action' = None /\ prev_prev_action' = None)]_vars
    /\ [][IsStepCall =>
            /\ prev_action' = ClipAction(prev_action')
            /\ prev_prev_action' = prev_action
            /\ (nsteps' = 1) => (IsNone(prev_action) /\ IsNone(prev_prev_action))
            /\ (nsteps' = 2) => (~IsNone(prev_action) /\ IsNone(prev_prev_action))
            /\ (nsteps' >= 3) => (~IsNone(prev_action) /\ ~IsNone(prev_prev_action))
            /\ ret'.reward =
                 IClip(PersonTermsOf(FrameAt(current_frames', step_idx'), crop_x', crop_y',
                                     crop_w', crop_h', prev_action', ret'.obs[14],
                                     ret'.obs[15])
                         + (IF nsteps' <= 2 THEN 0
                            ELSE jitter_penalty(prev_action', prev_action, prev_prev_action)),
                       REWARD_MIN, REWARD_MAX)]_vars

\* A third step call whose reward carries a jitter penalty: it is lower than
\* the sum of the other terms and not at the lower clip.
C16_Witness ==
    /\ AfterStep
    /\ nsteps = 3
    /\ ret.reward < PersonTerms
    /\ ret.reward > REWARD_MIN

-----------------------------------------------------------------------------
(* C17: two runs of the engine side by side.  The engine of the module is  *)
(* the first run, with whatever resets and steps it has behind it; twin is *)
(* the second run, an engine fresh from __init__ over the same sessions.   *)
(* A reset with the same seed makes self.np_random produce the same draws  *)
(* in both runs (super().reset(seed=seed), cinematic_env.py:96), so a      *)
(* paired reset hands both runs the same idx, ep_len and start.            *)

\* The fields of an engine fresh from __init__.
FreshEngine ==
    [fps |-> DEFAULT_FPS, current_frames |-> EmptySlice, step_idx |-> 0,
     crop_x |-> Zero, crop_y |-> Zero, crop_w |-> One, crop_h |-> One,
     zoom |-> One, prev_action |-> None, prev_prev_action |-> None,
     prev_speaker_x |-> None, prev_speaker_y |-> None,
     ret |-> [call |-> "init"], nsteps |-> 0]

\* The runs a call is made in: 1 is the engine of the module, 2 is twin.
Runs == IF IsNone(twin) THEN {1} ELSE {1, 2}

\* reset(seed) while the runs are not paired: in the first run alone, or
\* (pair) in both runs with the same draws, which pairs them; stale keeps
\* whether the first run held two actions of the episode the reset abandons.
TwinReset ==
    /\ IsNone(twin)
    /\ \E idx \in 1..Len(sessions) :
        LET total == Len(SessionFrames(sessions[idx]))
        IN  \E ep_len \in {n \in 1..total :
                              \E options \in OptionSet : n \in EpLenRange(options, total)} :
                \E start \in 0..(total - ep_len) :
                    \E rs \in {[i \in 1..2 |->
                                  reset_result(IF i = 1 THEN EngineState ELSE FreshEngine,
                                               sessions[idx], ep_len, start)]} :
                        \E pair \in BOOLEAN :
                            /\ Assign(rs[1])
                            /\ twin' = IF pair
                                       THEN [engine |-> rs[2],
                                             stale |-> ~IsNone(prev_prev_action)]
                                       ELSE None
                            /\ UNCHANGED <<sessions, reset_options, canvasVars, expertVars, pure_call>>

\* step(raw): in the first run alone before the runs are paired, in both
\* runs with the same action afterwards.
TwinStep ==
    /\ nsteps < MaxSteps
    /\ current_frames.len > 0
    /\ \E raw \in ActionSet :
        \E rs \in {[i \in Runs |->
                      step_result(IF i = 1 THEN EngineState ELSE twin.engine, raw)]} :
            /\ Assign(rs[1])
            /\ twin' = IF IsNone(twin) THEN None
                       ELSE [engine |-> rs[2], stale |-> twin.stale]
            /\ UNCHANGED <<sessions, reset_options, canvasVars, expertVars, pure_call>>

NextTwin == TwinReset \/ TwinStep

SpecTwin == Init /\ [][NextTwin]_vars

\* C17: from a reset with the same seed on, under the same actions, the two
\* runs return the same observation, reward, flags and info and hold the same
\* engine fields, whatever the first run did before that reset: nothing of an
\* earlier episode survives reset.
C17_ResetForgetsEarlierEpisodes ==
    ~IsNone(twin) => EngineState = twin.engine

\* The first run abandoned an episode with two actions in its history, and
\* both runs are now three steps into the paired episode, with the jitter
\* term at work.
C17_Witness ==
    /\ ~IsNone(twin)
    /\ twin.stale
    /\ AfterStep
    /\ nsteps = 3
    /\ ret = twin.engine.ret
    /\ ret.reward < PersonTerms

-----------------------------------------------------------------------------
(* C18: the episode slice reset cuts, against the options it was called    *)
(* with.  np_random.integers(low, high) raises ValueError when low >= high *)
(* (cinematic_env.py:112-116), after self._fps was assigned (line 101).    *)

\* min_len and max_len as reset reads them from options (lines 104-109).
EffectiveMinLen(options) ==
    IF IsNone(options) THEN DEFAULT_MIN_LEN
    ELSE Get(options, "min_episode_len", DEFAULT_MIN_LEN)
EffectiveMaxLen(options) ==
    IF IsNone(options) THEN DEFAULT_MAX_LEN
    ELSE Get(options, "max_episode_len", DEFAULT_MAX_LEN)

\* A start range that only keeps the first frame of the slice in the session.
StartRange_first_frame_only(total, ep_len) == 0..(total - 1)

\* The range the start offset is drawn from: integers(0, total - ep_len + 1).
StartRange(total, ep_len) == 0..(total - ep_len)

\* The pool of the slicing runs: sessions of 2, 3 and 5 frames.
SlicePool == SmallPool \o <<"session_sparse">>
InitSlice == InitWith(SlicePool)

\* reset(options=options) when both draws succeed.
ResetDraws ==
    \E options \in OptionSet :
        \E idx \in 1..Len(sessions) :
            LET total == Len(SessionFrames(sessions[idx]))
            IN  \E ep_len \in EpLenRange(options, total) :
                    \E start \in StartRange(total, ep_len) :
                        /\ \E r \in {reset_result(EngineState, sessions[idx], ep_len, start)} :
                               Assign(r)
                        /\ reset_options' = options
                        /\ UNCHANGED <<sessions, twin, canvasVars, expertVars, pure_call>>

\* reset(options=options) when the episode-length range is empty: the draw
\* raises, and only self._fps has been assigned by then.
ResetRaises ==
    \E options \in OptionSet :
        \E idx \in 1..Len(sessions) :
            /\ EpLenRange(options, Len(SessionFrames(sessions[idx]))) = {}
            /\ fps' = SessionFps(sessions[idx])
            /\ ret' = [call |-> "reset", raised |-> "ValueError"]
            /\ reset_options' = options
            /\ UNCHANGED <<sessions, current_frames, step_idx, crop_x, crop_y, crop_w,
                           crop_h, zoom, prev_action, prev_prev_action, prev_speaker_x,
                           prev_speaker_y, nsteps, twin, canvasVars, expertVars, pure_call>>

NextSlice == ResetDraws \/ ResetRaises

SpecSlice == InitSlice /\ [][NextSlice]_vars

\* C18: after reset with an option pair 1 <= min_len <= max_len (defaults
\* filled in), on any session of the pool, the call has returned and the slice
\* is frames[start : start+len] of the session named in info, with
\* min(min_len, total) <= len <= min(total, max_len) and
\* 0 <= start <= total - len: not empty and not past the session end.
C18_SliceWithinSession ==
    (/\ ret.call = "reset"
     /\ 1 <= EffectiveMinLen(reset_options)
     /\ EffectiveMinLen(reset_options) <= EffectiveMaxLen(reset_options))
    => /\ "raised" \notin DOMAIN ret
       /\ "info" \in DOMAIN ret
       /\ LET min_len == EffectiveMinLen(reset_options)
              max_len == EffectiveMaxLen(reset_options)
              sid == current_frames.sid
              len == current_frames.len
              start == current_frames.start
          IN  /\ \E i \in 1..Len(sessions) : sessions[i] = sid
              /\ ret.info.session_id = sid
              /\ ret.info.episode_length = len
              /\ LET total == Len(SessionFrames(sid))
                 IN  /\ total >= 1
                     /\ (IF min_len < total THEN min_len ELSE total) <= len
                     /\ len <= (IF total < max_len THEN total ELSE max_len)
                     /\ 0 <= start
                     /\ start <= total - len
                     /\ len >= 1
                     /\ start + len <= total

\* A slice of the longest length the options allow that ends on the last
\* frame of the five-frame session.
C18_Witness ==
    /\ ret.call = "reset"
    /\ "info" \in DOMAIN ret
    /\ reset_options = [min_episode_len |-> 2, max_episode_len |-> 3]
    /\ current_frames = [sid |-> "session_sparse", start |-> 2, len |-> 3]

-----------------------------------------------------------------------------
\* C19: in one step the crop origin moves by at most MAX_PAN_SPEED horizontally
\* and MAX_TILT_SPEED vertically and zoom changes by at most MAX_ZOOM_SPEED;
\* after the step zoom is at most MAX_ZOOM and the crop height at least MIN_CROP.
C19_StepWithinSpeedLimits ==
    [][IsStepCall =>
          /\ Le(RAbs(Sub(crop_x', crop_x)), MAX_PAN_SPEED)
          /\ Le(RAbs(Sub(crop_y', crop_y)), MAX_TILT_SPEED)
          /\ Le(RAbs(Sub(zoom', zoom)), MAX_ZOOM_SPEED)
          /\ Le(zoom', MAX_ZOOM)
          /\ Le(MIN_CROP, crop_h')]_vars

\* The part of C19 about the state a step leaves.
C19_ZoomAndHeightAfterStep ==
    AfterStep => (Le(zoom, MAX_ZOOM) /\ Le(MIN_CROP, crop_h))

\* The horizontal limit alone, on steps that start from a crop whose size
\* agrees with its zoom and that lies inside the canvas.
C19_PanLimitFromConsistentCrop ==
    [][(/\ IsStepCall
        /\ Le(One, zoom) /\ Le(zoom, MAX_ZOOM)
        /\ crop_h = Div(One, zoom)
        /\ crop_w = Mul(crop_h, ASPECT_RATIO)
        /\ Le(Zero, crop_x) /\ Le(Add(crop_x, crop_w), One))
       => Le(RAbs(Sub(crop_x', crop_x)), MAX_PAN_SPEED)]_vars

-----------------------------------------------------------------------------
(* C20: two runs side by side again.  Both take the same resets; whenever  *)
(* the engine of the module is stepped with a raw action, twin is stepped  *)
(* with that action's component-wise clamp to [-1, 1].                     *)

\* The clamp of one component to [-1, 1], and of an action component-wise.
Clamp1(v) == IF Lt(One, v) THEN One ELSE IF Lt(v, Neg(One)) THEN Neg(One) ELSE v
ClampedAction(raw) == <<Clamp1(raw[1]), Clamp1(raw[2]), Clamp1(raw[3])>>
InRange(raw) == raw = ClampedAction(raw)

\* reset in both runs, the same draws; the second run starts from the state
\* the first is in.
ClampReset ==
    \E idx \in 1..Len(sessions) :
        LET total == Len(SessionFrames(sessions[idx]))
        IN  \E ep_len \in {n \in 1..total :
                              \E options \in OptionSet : n \in EpLenRange(options, total)} :
                \E start \in 0..(total - ep_len) :
                    \E r \in {reset_result(EngineState, sessions[idx], ep_len, start)} :
                        /\ Assign(r)
                        /\ twin' = [engine |-> r, raw |-> None]
                        /\ UNCHANGED <<sessions, reset_options, canvasVars, expertVars, pure_call>>

\* step(raw) in the first run, step(clamp(raw)) in the second.
ClampStep ==
    \E raw \in ActionSet :
        /\ ~IsNone(twin)
        /\ nsteps < MaxSteps
        /\ current_frames.len > 0
        /\ \E r \in {step_result(EngineState, raw)} : Assign(r)
        /\ twin' = [engine |-> step_result(twin.engine, ClampedAction(raw)),
                    raw |-> raw]
        /\ UNCHANGED <<sessions, reset_options, canvasVars, expertVars, pure_call>>

NextClamp == ClampReset \/ ClampStep

SpecClamp == Init /\ [][NextClamp]_vars

\* C20: step returns for an action with components outside [-1, 1], and the
\* crop, the observation, the reward and every other engine field are those
\* of the run that was given the clamped action; the action kept in the
\* history is the clamped one.
C20_OutOfRangeActsAsItsClamp ==
    (~IsNone(twin) /\ AfterStep) =>
        /\ "reward" \in DOMAIN ret
        /\ crop_x = twin.engine.crop_x
        /\ crop_y = twin.engine.crop_y
        /\ crop_w = twin.engine.crop_w
        /\ crop_h = twin.engine.crop_h
        /\ zoom = twin.engine.zoom
        /\ ret = twin.engine.ret
        /\ EngineState = twin.engine
        /\ prev_action = ClampedAction(twin.raw)

\* The third step of an episode, taken with an action outside the range after
\* another one outside the range: the jitter term reads the stored actions.
C20_Witness ==
    /\ ~IsNone(twin)
    /\ AfterStep
    /\ nsteps = 3
    /\ ~InRange(twin.raw)
    /\ ~IsNone(prev_prev_action)
    /\ prev_action = ClampedAction(twin.raw)
    /\ prev_action # twin.raw
    /\ ret.reward > REWARD_MIN
    /\ ret.reward < PersonTerms

-----------------------------------------------------------------------------
(* C21: the frame-extraction loop over a wider choice of (--zoom-min,      *)
(* --zoom-max): extract_frames.py passes the two floats on unvalidated     *)
(* (line 95).                                                              *)

\* The defaults, a wider range, a range below the aspect lock (crop_w would
\* exceed 1) and a range of very large zooms (crop_h below 0.01).
ZoomRangeWideSet ==
    ZoomRangeSet \cup { <<Q(1, 2), One>>, <<Q(150, 1), Q(200, 1)>> }

InitCanvasWide ==
    /\ InitEnv(<< >>)
    /\ ExpertIdle
    /\ zoom_range \in ZoomRangeWideSet
    /\ canvas_state = None
    /\ detection = None
    /\ embedding = None
    /\ output_idx = 0
    /\ init_calls = 0
    /\ crop_pos = None

SpecCanvasWide == InitCanvasWide /\ [][NextCanvas]_vars

\* C21: every crop embed_in_canvas emits, on the default path, on person
\* frames and on person-less frames, for every zoom range with 0 < min <= max,
\* has 0 <= x <= 1 - w, 0 <= y <= 1 - h, zoom = 1/h, and w = h * 16/9 unless
\* w = 1.
C21_EmittedCropWellFormed ==
    ~IsNone(embedding) =>
        LET c == embedding.crop
        IN  /\ Le(Zero, c.x) /\ Le(c.x, Sub(One, c.w))
            /\ Le(Zero, c.y) /\ Le(c.y, Sub(One, c.h))
            /\ c.zoom = Inv(c.h)
            /\ (c.w = Mul(c.h, ASPECT_RATIO) \/ c.w = One)

\* The same with the slack the rounding to six decimals needs: the origin
\* bounds to 1e-6, zoom * h = 1 and w = h * 16/9 to 1e-4.
C21_TOL == Q(1, 10000)
C21_EmittedCropWellFormedRounded ==
    ~IsNone(embedding) =>
        LET c == embedding.crop
        IN  /\ Le(Zero, c.x) /\ Le(c.x, Add(Sub(One, c.w), Q(1, 1000000)))
            /\ Le(Zero, c.y) /\ Le(c.y, Add(Sub(One, c.h), Q(1, 1000000)))
            /\ Le(RAbs(Sub(Mul(c.zoom, c.h), One)), C21_TOL)
            /\ (Le(RAbs(Sub(c.w, Mul(c.h, ASPECT_RATIO))), C21_TOL) \/ c.w = One)

-----------------------------------------------------------------------------
(* Direct calls of the reward terms (env_reward.py), as test_env.py makes  *)
(* them: the arguments are drawn from small sets around the thresholds.    *)

InitPure == InitWith(<< >>)

\* head_y, crop_y and crop_h of a head_cutoff_penalty call.  With crop_y = 0
\* and crop_h = 1 the head_y values are head_rel itself: below 0, on 0, inside
\* the 5% margin, on the margin, well inside, and the same towards 1.
HeadYSet ==
    { Q(-1, 10), Zero, Q(1, 50), Q(1, 20), Q(1, 4), Q(1, 2),
      Q(19, 20), Q(24, 25), One, Q(3, 2) }
CutoffCropYSet == { Zero, Q(1, 4) }
CutoffCropHSet == { One, Q(1, 2), Q(1, 200), Zero }

CallHeadCutoff ==
    /\ \E head_y \in HeadYSet, cy \in CutoffCropYSet, ch \in CutoffCropHSet,
          has_person \in BOOLEAN :
          pure_call' = [fn |-> "head_cutoff_penalty",
                        head_y |-> head_y, crop_y |-> cy, crop_h |-> ch,
                        has_person |-> has_person,
                        result |-> head_cutoff_penalty(head_y, cy, ch, has_person)]
    /\ UNCHANGED <<envVars, canvasVars, expertVars>>

NextHeadCutoff == CallHeadCutoff
SpecHeadCutoff == InitPure /\ [][NextHeadCutoff]_vars

IsHeadCutoffCall == ~IsNone(pure_call) /\ pure_call.fn = "head_cutoff_penalty"

\* What the claim's three cases give for head_rel = (head_y - crop_y)/crop_h.
HeadCutoffByCases(head_rel) ==
    IF Lt(head_rel, Zero) \/ Lt(One, head_rel) THEN -1000
    ELSE IF Lt(head_rel, Q(5, 100)) \/ Lt(Q(95, 100), head_rel) THEN -500
    ELSE 0

\* C22 as stated: -1.0 when head_rel lies outside [0, 1], -0.5 when it is
\* inside [0, 1] but within 0.05 of either edge (0 and 1 included), 0
\* otherwise; 0 whenever there is no person.
C22_HeadCutoffByCases ==
    IsHeadCutoffCall =>
        /\ ~pure_call.has_person => pure_call.result = 0
        /\ (pure_call.has_person /\ Lt(Zero, pure_call.crop_h)) =>
              pure_call.result =
                  HeadCutoffByCases(Div(Sub(pure_call.head_y, pure_call.crop_y),
                                        pure_call.crop_h))

\* C22, amended: the three cases apply when crop_h >= 0.01; the penalty is 0
\* whenever there is no person or the crop height is below 0.01.
C22_HeadCutoffByCasesAboveMinCrop ==
    IsHeadCutoffCall =>
        /\ (~pure_call.has_person \/ Lt(pure_call.crop_h, MIN_CROP)) =>
              pure_call.result = 0
        /\ (pure_call.has_person /\ Le(MIN_CROP, pure_call.crop_h)) =>
              pure_call.result =
                  HeadCutoffByCases(Div(Sub(pure_call.head_y, pure_call.crop_y),
                                        pure_call.crop_h))

\* A person whose head is above a crop of height 0.005: head_rel > 1, penalty 0.
C22_Witness ==
    /\ IsHeadCutoffCall
    /\ pure_call.has_person
    /\ pure_call.crop_h = Q(1, 200)
    /\ Lt(One, Div(Sub(pure_call.head_y, pure_call.crop_y), pure_call.crop_h))
    /\ pure_call.result = 0

\* A person whose head is on the upper edge of the crop: penalty -0.5.
C22_WitnessOnEdge ==
    /\ IsHeadCutoffCall
    /\ pure_call.has_person
    /\ pure_call.crop_h = One
    /\ Sub(pure_call.head_y, pure_call.crop_y) = One
    /\ pure_call.result = -500

-----------------------------------------------------------------------------
(* bc_dataset.py: build_observation, the module-level function the expert  *)
(* dataset builds its observations with, called beside the engine's        *)
(* _build_observation on the same frame, crop and velocity.                *)

\* build_observation with the zoom left unnormalised.
bc_build_observation_raw_zoom(frame, crop_x_, crop_y_, crop_w_, crop_h_, zoom_, vel_x, vel_y) ==
    LET speaker == frame.speaker
        keypoints == frame.keypoints
        has_person == IF IsNone(speaker) THEN Zero ELSE One
        head_y == IF IsNone(keypoints) THEN Zero ELSE keypoints.head_y
        waist_y == IF IsNone(keypoints) THEN Zero ELSE keypoints.waist_y
        rel == Lt(MIN_CROP, crop_h_) /\ Lt(Q(1, 2), has_person)
    IN  <<has_person,
          IF IsNone(speaker) THEN Zero ELSE speaker.x,
          IF IsNone(speaker) THEN Zero ELSE speaker.y,
          IF IsNone(speaker) THEN Zero ELSE RMin(Div(speaker.z, Q(10, 1)), One),
          IF IsNone(keypoints) THEN Zero ELSE keypoints.head_x,
          head_y,
          IF IsNone(keypoints) THEN Zero ELSE keypoints.waist_x,
          waist_y,
          crop_x_, crop_y_, crop_w_, crop_h_,
          zoom_, vel_x, vel_y,
          IF rel THEN NpClip(Div(Sub(head_y, crop_y_), crop_h_), Zero, One) ELSE Zero,
          IF rel THEN NpClip(Div(Sub(waist_y, crop_y_), crop_h_), Zero, One) ELSE Zero,
          IF IsNone(keypoints) THEN Zero ELSE keypoints.pose_confidence>>

\* bc_dataset.build_observation(frame, crop_x, crop_y, crop_w, crop_h, zoom,
\* vel_x, vel_y).
bc_build_observation(frame, crop_x_, crop_y_, crop_w_, crop_h_, zoom_, vel_x, vel_y) ==
    LET speaker == frame.speaker
        keypoints == frame.keypoints
        has_person == IF IsNone(speaker) THEN Zero ELSE One
        sp_x == IF IsNone(speaker) THEN Zero ELSE speaker.x
        sp_y == IF IsNone(speaker) THEN Zero ELSE speaker.y
        sp_z == IF IsNone(speaker) THEN Zero ELSE RMin(Div(speaker.z, Q(10, 1)), One)
        head_x == IF IsNone(keypoints) THEN Zero ELSE keypoints.head_x
        head_y == IF IsNone(keypoints) THEN Zero ELSE keypoints.head_y
        waist_x == IF IsNone(keypoints) THEN Zero ELSE keypoints.waist_x
        waist_y == IF IsNone(keypoints) THEN Zero ELSE keypoints.waist_y
        pose_conf == IF IsNone(keypoints) THEN Zero ELSE keypoints.pose_confidence
        zoom_norm == RMin(Div(zoom_, MAX_ZOOM), One)
        rel == Lt(Q(1, 100), crop_h_) /\ Lt(Q(1, 2), has_person)
        head_rel_y == IF rel THEN NpClip(Div(Sub(head_y, crop_y_), crop_h_), Zero, One)
                      ELSE Zero
        waist_rel_y == IF rel THEN NpClip(Div(Sub(waist_y, crop_y_), crop_h_), Zero, One)
                       ELSE Zero
    IN  <<has_person, sp_x, sp_y, sp_z,
          head_x, head_y, waist_x, waist_y,
          crop_x_, crop_y_, crop_w_, crop_h_,
          zoom_norm, vel_x, vel_y,
          head_rel_y, waist_rel_y, pose_conf>>

\* The frame records of the small sessions: every combination of speaker and
\* keypoints present or absent occurs among them.
ObsFrameSet ==
    UNION { {SessionFrames(sid)[i] : i \in 1..Len(SessionFrames(sid))} :
              sid \in {"session_a", "session_b", "session_c", "session_d",
                       "session_e", "session_sparse"} }

\* Crop states: the recorded crops, the engine's defaults, a crop below the
\* 0.01 height guard and a crop lifted above the heads of the sessions.
ObsCropSet ==
    { CropZ2, CropZ4, CropZ18, CropZ5,
      CropRec(Zero, Zero, One, One, One),
      CropRec(Q(1, 2), Q(1, 2), Q(2, 225), Q(1, 200), Q(200, 1)),
      CropRec(Zero, Q(3, 4), Q(4, 9), Q(1, 4), Q(4, 1)) }

ObsVelocitySet == { <<Zero, Zero>>, <<One, Neg(One)>>, <<Q(1, 2), Q(-3, 10)>> }

CallBuildObservation ==
    /\ \E frame \in ObsFrameSet, c \in ObsCropSet, v \in ObsVelocitySet :
          pure_call' = [fn |-> "build_observation",
                        frame |-> frame, crop |-> c, velocity |-> v,
                        result |-> bc_build_observation(frame, c.x, c.y, c.w, c.h, c.zoom,
                                                        v[1], v[2]),
                        engine |-> build_observation(frame, c.x, c.y, c.w, c.h, c.zoom,
                                                     v[1], v[2])]
    /\ UNCHANGED <<envVars, canvasVars, expertVars>>

NextObservation == CallBuildObservation
SpecObservation == InitPure /\ [][NextObservation]_vars

IsBuildObservationCall == ~IsNone(pure_call) /\ pure_call.fn = "build_observation"

\* C23: for the same frame, crop and velocity, bc_dataset.build_observation
\* returns the 18-element vector the engine's _build_observation returns,
\* whether speaker and keypoints are present or not.
C23_SameObservationAsEngine ==
    IsBuildObservationCall =>
        /\ Len(pure_call.result) = 18
        /\ pure_call.result = pure_call.engine

\* A frame with a speaker and no keypoints, seen through a crop with zoom
\* above MAX_ZOOM: the zoom is normalised to 1 and the relative head position
\* is clipped.
C23_Witness ==
    /\ IsBuildObservationCall
    /\ ~IsNone(pure_call.frame.speaker)
    /\ IsNone(pure_call.frame.keypoints)
    /\ Lt(MAX_ZOOM, pure_call.crop.zoom)
    /\ pure_call.result[13] = One
    /\ pure_call.result[1] = One
    /\ pure_call.result[18] = Zero
    /\ pure_call.result = pure_call.engine

-----------------------------------------------------------------------------
(* ExpertDataset._extract_pairs over one pair of consecutive frames of a   *)
(* session: the pair is skipped unless both frames carry an ideal crop     *)
(* (bc_dataset.py:111-114), otherwise the action is derived (116-120).     *)

\* The action with the final np.clip left out.
expert_action_unclipped(ideal_t, ideal_t1) == raw_expert_action(ideal_t, ideal_t1)

\* action = np.clip(np.array([dx, dy, dz]), -1.0, 1.0)
expert_action(ideal_t, ideal_t1) == ClipAction(raw_expert_action(ideal_t, ideal_t1))

\* frame.get("ideal_crop") of the two frames: the ideal crops of the round
\* trip, no ideal crop at all, and crops with keys missing.
ExpertCropSet ==
    IdealCropSet
    \cup { None,
           [zoom |-> Q(3, 1)],
           [x |-> Q(1, 2), y |-> Q(1, 2)] }

InitExpert ==
    /\ InitEnv(SmallPool)
    /\ CanvasIdle
    /\ ideal_pair \in [c0 : ExpertCropSet, c1 : ExpertCropSet]
    /\ expert = None

\* One pass of the loop body of _extract_pairs.
ExtractPair ==
    /\ IsNone(expert)
    /\ expert' = IF IsNone(ideal_pair.c0) \/ IsNone(ideal_pair.c1)
                 THEN [skipped |-> TRUE]
                 ELSE [skipped |-> FALSE,
                       action |-> expert_action(ideal_pair.c0, ideal_pair.c1)]
    /\ UNCHANGED <<envVars, canvasVars, ideal_pair, pure_call>>

NextExpert == ExtractPair
SpecExpert == InitExpert /\ [][NextExpert]_vars

\* The claim's formula for one component: clamp((b - a) / speed, -1, 1).
ClampedRate(a, b, speed) == Clamp1(Div(Sub(b, a), speed))

\* C24: every expert action is the component-wise clamp to [-1, 1] of
\* ((x2 - x1)/MAX_PAN_SPEED, (y2 - y1)/MAX_TILT_SPEED,
\* (zoom2 - zoom1)/MAX_ZOOM_SPEED) for the ideal crops of the two frames
\* (a missing x or y read as 0, a missing zoom as 1), so its components lie in
\* [-1, 1]; a pair without both ideal crops produces no action.
C24_ExpertActionIsClampedRate ==
    ~IsNone(expert) =>
        IF expert.skipped
        THEN (IsNone(ideal_pair.c0) \/ IsNone(ideal_pair.c1)) /\ "action" \notin DOMAIN expert
        ELSE LET c0 == ideal_pair.c0
                 c1 == ideal_pair.c1
             IN  /\ ~IsNone(c0) /\ ~IsNone(c1)
                 /\ expert.action =
                      <<ClampedRate(Get(c0, "x", Zero), Get(c1, "x", Zero), MAX_PAN_SPEED),
                        ClampedRate(Get(c0, "y", Zero), Get(c1, "y", Zero), MAX_TILT_SPEED),
                        ClampedRate(Get(c0, "zoom", One), Get(c1, "zoom", One),
                                    MAX_ZOOM_SPEED)>>
                 /\ \A i \in 1..3 : Le(Neg(One), expert.action[i]) /\ Le(expert.action[i], One)

\* From the crop at zoom 2 to the crop at zoom 5: all three rates are beyond
\* the limits and are clamped to 1.
C24_Witness ==
    /\ ~IsNone(expert)
    /\ ~expert.skipped
    /\ ideal_pair.c0 = CropZ2
    /\ ideal_pair.c1 = CropZ5
    /\ expert.action = <<One, One, One>>
    /\ raw_expert_action(ideal_pair.c0, ideal_pair.c1) # expert.action

-----------------------------------------------------------------------------
\* C25: in every embed_in_canvas result the ideal crop has the x, y, w, h and
\* zoom of the current crop of the same frame.
C25_IdealCropIsCurrentCrop ==
    ~IsNone(embedding) =>
        /\ embedding.ideal_crop.x = embedding.crop.x
        /\ embedding.ideal_crop.y = embedding.crop.y
        /\ embedding.ideal_crop.w = embedding.crop.w
        /\ embedding.ideal_crop.h = embedding.crop.h
        /\ embedding.ideal_crop.zoom = embedding.crop.zoom

\* A later frame of an initialised canvas with the speaker tracked: the crop
\* is neither the whole canvas nor the centred one.
C25_Witness ==
    /\ ~IsNone(embedding)
    /\ output_idx >= 2
    /\ init_calls = 1
    /\ detection.has_person
    /\ embedding.crop.x # Div(Sub(One, embedding.crop.w), Q(2, 1))
    /\ embedding.crop.w # One
    /\ embedding.ideal_crop = embedding.crop

-----------------------------------------------------------------------------
\* The slice frame the k-th step call of an episode of L frames observes.
ObservedIndex(k, L) == IF k < L - 1 THEN k ELSE L - 1

\* C26: after reset the frame pointer stays within [0, L-1]; the k-th step call
\* observes slice frame min(k, L-1), so the truncating L-th call observes the
\* last frame again, and every step call after truncation also returns
\* truncated = true on that last frame while still applying its action to the
\* crop.
C26_FramePointerStaysInSlice ==
    /\ [](ret.call # "init" => (0 <= step_idx /\ step_idx <= current_frames.len - 1))
    /\ [](AfterStep =>
            /\ step_idx = ObservedIndex(nsteps, current_frames.len)
            /\ ret.info.frame_idx = current_frames.start + step_idx
            /\ ret.obs = build_observation(FrameAt(current_frames, step_idx), crop_x,
                                           crop_y, crop_w, crop_h, zoom, ret.obs[14],
                                           ret.obs[15])
            /\ ret.truncated = (nsteps >= current_frames.len))
    /\ [][(IsStepCall /\ AfterStep /\ ret.truncated) =>
            /\ ret'.truncated
            /\ step_idx' = current_frames.len - 1
            /\ step_idx' = step_idx
            /\ LET c == apply_action(crop_x, crop_y, zoom, prev_action')
               IN  /\ crop_x' = c.x
                   /\ crop_y' = c.y
                   /\ crop_w' = c.w
                   /\ crop_h' = c.h
                   /\ zoom' = c.zoom]_vars

\* A step call after the truncating one, in a two-frame episode: it is again
\* truncated on the last frame and its action has moved the crop.
C26_Witness ==
    /\ AfterStep
    /\ current_frames.len = 2
    /\ nsteps = 3
    /\ ret.truncated
    /\ step_idx = 1
    /\ prev_action[1] # Zero
    /\ crop_x # Get(FrameAt(current_frames, 0).current_crop, "x", Zero)

-----------------------------------------------------------------------------
\* C27: within one step call the action is applied to the crop first, then the
\* frame pointer advances, then the reward is computed from the post-action
\* crop and the frame at the advanced pointer while the action history still
\* holds the actions of the two preceding steps; the history is shifted only
\* after the reward is computed.
C27_StepOrder ==
    [][IsStepCall =>
        LET action == prev_action'
            c == apply_action(crop_x, crop_y, zoom, action)
            idx == ObservedIndex(step_idx + 1, current_frames.len)
            frame == FrameAt(current_frames, idx)
            vel == Velocity(frame.speaker, prev_speaker_x, prev_speaker_y, fps)
        IN  /\ <<crop_x', crop_y', crop_w', crop_h', zoom'>> = <<c.x, c.y, c.w, c.h, c.zoom>>
            /\ step_idx' = idx
            /\ ret'.reward =
                 compute_reward(reward_has_person(frame), reward_head_y(frame),
                                reward_waist_y(frame), reward_speaker_x(frame),
                                c.x, c.y, c.w, c.h, action, prev_action,
                                prev_prev_action, vel[1], vel[2])
            /\ prev_prev_action' = prev_action]_vars

\* A third step call that moved the crop, advanced to the third frame and
\* whose reward carries the jerk of its action against the two before it.
C27_Witness ==
    /\ AfterStep
    /\ nsteps = 3
    /\ step_idx = 2
    /\ prev_action # prev_prev_action
    /\ prev_action[1] # Zero
    /\ reward_has_person(FrameAt(current_frames, step_idx))
    /\ ret.reward < PersonTerms
    /\ ret.reward > REWARD_MIN

-----------------------------------------------------------------------------
\* The origin fixed by the canvas state, clamp(anchor - first_frame_centre *
\* crop_size), and the centred one, in the frame's (Y-down) coordinates.
FixedOriginX ==
    clamp(Sub(canvas_state.canvas_anchor_x,
              Mul(canvas_state.first_frame_sx, canvas_state.crop_w)),
          Zero, Sub(One, canvas_state.crop_w))
FixedOriginY ==
    clamp(Sub(canvas_state.canvas_anchor_y,
              Mul(canvas_state.first_frame_sy, canvas_state.crop_h)),
          Zero, Sub(One, canvas_state.crop_h))
CentredOriginX == Div(Sub(One, canvas_state.crop_w), Q(2, 1))
CentredOriginY == Div(Sub(One, canvas_state.crop_h), Q(2, 1))

\* The emitted crop has its origin at (ox, oy) of the canvas: x rounded, y
\* flipped to the Y-up system and rounded.
EmittedAt(ox, oy) ==
    /\ embedding.crop.x = Round6(clamp01(ox))
    /\ embedding.crop.y = Round6(clamp01(flip_y(Add(oy, canvas_state.crop_h))))

\* The next frame is written and both it and the one before show a person.
TwoPersonFrames ==
    /\ output_idx' = output_idx + 1
    /\ ~IsNone(embedding)
    /\ detection.has_person
    /\ detection'.has_person

\* C28: within one video the emitted crop origin does not depend on where the
\* speaker is: it is clamp(anchor - first_frame_centre * crop_size) on every
\* frame with a person and the centred origin on every frame without one, so
\* two consecutive frames with a person have identical ideal crops and the
\* expert action between them is zero.
C28_OriginFixedPerVideo ==
    /\ [](~IsNone(embedding) =>
            IF detection.has_person
            THEN /\ crop_pos.crop_x = FixedOriginX
                 /\ crop_pos.crop_y = FixedOriginY
                 /\ EmittedAt(FixedOriginX, FixedOriginY)
            ELSE EmittedAt(CentredOriginX, CentredOriginY))
    /\ [][TwoPersonFrames =>
            /\ embedding'.ideal_crop = embedding.ideal_crop
            /\ expert_action(embedding.ideal_crop, embedding'.ideal_crop)
                 = <<Zero, Zero, Zero>>]_vars

\* A person frame whose speaker stands elsewhere than on the person frame
\* before it, which was not the first of the canvas either: the origin is
\* still the fixed one and differs from the centred one.
C28_Witness ==
    /\ output_idx >= 3
    /\ init_calls = 1
    /\ Tracking
    /\ detection.center[1] # canvas_state.first_frame_sx
    /\ crop_pos.crop_x = FixedOriginX
    /\ FixedOriginX # CentredOriginX
    /\ embedding.ideal_crop.x = Round6(FixedOriginX)

\* The frame-extraction loop with the crop origin held in doubles.  The
\* draws put the origin of a canvas anchored on a centred speaker exactly on a
\* rounding tie (anchor_x - 0.5 * 16/27 = 0.1668645) or away from one.
TieDrawSet ==
    [target_canvas_bh : {Q(20, 100)},
     canvas_anchor_x : {Add(Q(8, 27), Q(1668645, 10000000)), Q(60, 100)},
     canvas_anchor_y : {Q(30, 100), Q(50, 100)}]
SideSet == [x : BOOLEAN, y : BOOLEAN]

\* embed_in_canvas, the side of a tie on which this frame's origin falls given.
embed_in_canvas_double(det, state, draws, zr, side) ==
    LET state1 == IF NeedsInit(det, state) THEN initialize_canvas(det, draws, zr)
                  ELSE state
    IN  IF IsNone(state1) THEN embed_default(zr) ELSE embed_rounding(det, state1, side)

\* One pass of the loop.  The side is open only on a frame with a person,
\* whose origin is computed from the speaker's centre; the same detection on
\* the same canvas gives the same crop as on the frame before.
ProcessFrameDouble(det, side) ==
    /\ output_idx < MaxFrames
    /\ det.has_person \/ side = TieUp
    /\ \E draws \in (IF NeedsInit(det, canvas_state) THEN TieDrawSet ELSE {NoDraw}) :
         \E e \in {embed_in_canvas_double(det, canvas_state, draws, zoom_range, side)} :
            /\ (det = detection /\ ~IsNone(canvas_state)) => e.crop = embedding.crop
            /\ detection' = det
            /\ embedding' = [speaker |-> e.speaker, keypoints |-> e.keypoints,
                             crop |-> e.crop, ideal_crop |-> e.ideal_crop]
            /\ canvas_state' = e.state
            /\ crop_pos' = e.pos
            /\ init_calls' = IF NeedsInit(det, canvas_state) THEN init_calls + 1
                             ELSE init_calls
            /\ output_idx' = output_idx + 1
    /\ UNCHANGED <<zoom_range, envVars, expertVars, pure_call>>

NextCanvasDouble == \E det \in DetectionSet : \E side \in SideSet : ProcessFrameDouble(det, side)
SpecCanvasDouble == InitCanvas /\ [][NextCanvasDouble]_vars

\* Equal up to one unit of the sixth decimal.
WithinOneUnit(a, b) == Le(RAbs(Sub(a, b)), Q(1, 1000000))

\* The emitted crop has its origin at (ox, oy) up to the side a tie rounds to.
EmittedNear(ox, oy) ==
    /\ \E up \in BOOLEAN : embedding.crop.x = Round6Double(clamp01(ox), up)
    /\ \E up \in BOOLEAN :
         embedding.crop.y = Round6Double(clamp01(flip_y(Add(oy, canvas_state.crop_h))), up)

\* C28 amended: the origin _compute_crop_position returns is clamp(anchor -
\* first_frame_centre * crop_size) on every frame with a person and the centred
\* one on every frame without; the emitted x and y are that origin rounded to
\* six decimals, so two consecutive frames with a person have ideal crops
\* with the same w, h and zoom and with x and y equal up to one unit of the
\* sixth decimal, and the expert action between them is at most 0.00005 per
\* pan and tilt component and zero in zoom.
C28_OriginFixedUpToRounding ==
    /\ [](~IsNone(embedding) =>
            IF detection.has_person
            THEN /\ crop_pos.crop_x = FixedOriginX
                 /\ crop_pos.crop_y = FixedOriginY
                 /\ EmittedNear(FixedOriginX, FixedOriginY)
            ELSE EmittedAt(CentredOriginX, CentredOriginY))
    /\ [][TwoPersonFrames =>
            LET a == expert_action(embedding.ideal_crop, embedding'.ideal_crop)
            IN  /\ embedding'.ideal_crop.w = embedding.ideal_crop.w
                /\ embedding'.ideal_crop.h = embedding.ideal_crop.h
                /\ embedding'.ideal_crop.zoom = embedding.ideal_crop.zoom
                /\ WithinOneUnit(embedding'.ideal_crop.x, embedding.ideal_crop.x)
                /\ WithinOneUnit(embedding'.ideal_crop.y, embedding.ideal_crop.y)
                /\ Le(RAbs(a[1]), Q(5, 100000))
                /\ Le(RAbs(a[2]), Q(5, 100000))
                /\ a[3] = Zero]_vars

\* A frame of a canvas whose fixed origin is a rounding tie, the speaker away
\* from the anchor-frame centre and the emitted x rounded down.
C28_WitnessTieRoundedDown ==
    /\ output_idx >= 2
    /\ init_calls = 1
    /\ Tracking
    /\ detection.center[1] # canvas_state.first_frame_sx
    /\ IsRoundingTie(FixedOriginX)
    /\ crop_pos.crop_x = FixedOriginX
    /\ embedding.ideal_crop.x = Sub(Round6(FixedOriginX), Q(1, 1000000))

-----------------------------------------------------------------------------
\* The zoom of the record the episode was reset from.
ResetZoom == Get(FrameAt(current_frames, 0).current_crop, "zoom", One)

\* C29: after any step call the zoom is at least 16/9 and crop_w at most 1: a
\* zoom that the action leaves below 16/9 is set to 16/9, so a zoom in
\* [1, 16/9) never outlives a step, also when the episode was reset from a
\* record with such a zoom.
C29_ZoomAtLeastAspectAfterStep ==
    /\ [](AfterStep => (Le(ASPECT_RATIO, zoom) /\ Le(crop_w, One)))
    /\ [][(IsStepCall /\ Lt(Add(zoom, Mul(prev_action'[3], MAX_ZOOM_SPEED)), ASPECT_RATIO))
            => (zoom' = ASPECT_RATIO /\ crop_w' = One)]_vars

\* The first step after a reset from a record with zoom 1, zooming out: the
\* zoom is 16/9 afterwards.
C29_Witness ==
    /\ AfterStep
    /\ nsteps = 1
    /\ Lt(ResetZoom, ASPECT_RATIO)
    /\ Lt(prev_action[3], Zero)
    /\ zoom = ASPECT_RATIO
    /\ crop_w = One

-----------------------------------------------------------------------------
(* C30: compute_reward called directly, as the tests of env_reward do.     *)

\* (head_y, waist_y, speaker_x): on the ideal lines; head above the crop;
\* head near the lower edge; everything left of and below the canvas.
RewardPersonSet ==
    { <<Q(667, 1000), Q(333, 1000), Q(333, 1000)>>,
      <<Q(3, 2), Q(1, 5), Q(9, 10)>>,
      <<Q(1, 50), Zero, Q(1, 2)>>,
      <<Q(-3, 10), Q(-1, 2), Q(-1, 4)>> }

\* (crop_x, crop_y, crop_w, crop_h): the whole canvas; a crop inside it; the
\* smallest crop the terms accept; one below that; an empty one.
RewardCropSet ==
    { <<Zero, Zero, One, One>>,
      <<Q(1, 5), Q(3, 10), Q(1, 2), Q(2, 5)>>,
      <<Zero, Zero, Q(1, 100), Q(1, 100)>>,
      <<Zero, Zero, Q(1, 200), Q(1, 200)>>,
      <<Zero, Zero, Zero, Zero>> }

\* (action, prev_action, prev_prev_action): no action at all; a first and a
\* second step; a steady pan; a small change; a reversal; actions outside
\* [-1, 1].
RewardHistorySet ==
    { <<None, None, None>>,
      <<Act(One, Zero, Zero), None, None>>,
      <<Act(One, Zero, Zero), Act(One, Zero, Zero), None>>,
      <<Act(One, Zero, Zero), Act(One, Zero, Zero), Act(One, Zero, Zero)>>,
      <<Act(Q(1, 2), Q(1, 2), Zero), Act(Q(1, 4), Q(1, 2), Zero), Act(Zero, Q(1, 2), Zero)>>,
      <<Act(One, One, One), Act(Neg(One), Neg(One), Neg(One)), Act(One, One, One)>>,
      <<Act(Q(3, 1), Q(-2, 1), Q(5, 1)), Act(Q(-3, 1), Q(2, 1), Zero), Act(Zero, Zero, Zero)>> }

\* (velocity_x, velocity_y): at rest; below the speed threshold; along the
\* pan; against it; oblique.
RewardVelocitySet ==
    { <<Zero, Zero>>, <<Q(1, 200), Zero>>, <<One, Zero>>, <<Neg(One), Zero>>,
      <<Q(1, 2), Q(-1, 2)>> }

\* One call per run: the function is pure, a call leaves nothing behind for
\* the next one.
CallComputeReward ==
    /\ IsNone(pure_call)
    /\ \E has_person \in BOOLEAN, p \in RewardPersonSet, c \in RewardCropSet,
          h \in RewardHistorySet, v \in RewardVelocitySet :
          LET dx == IF IsNone(h[1]) THEN Zero ELSE h[1][1]
              dy == IF IsNone(h[1]) THEN Zero ELSE h[1][2]
          IN  pure_call' =
                [fn |-> "compute_reward",
                 has_person |-> has_person, person |-> p, crop |-> c,
                 history |-> h, velocity |-> v,
                 framing |-> framing_reward(p[1], p[2], c[2], c[4], has_person),
                 jitter |-> jitter_penalty(h[1], h[2], h[3]),
                 head_cutoff |-> head_cutoff_penalty(p[1], c[2], c[4], has_person),
                 thirds |-> rule_of_thirds_bonus(p[3], c[1], c[3], has_person),
                 anticipation |-> anticipation_bonus(dx, dy, v[1], v[2], has_person),
                 result |-> compute_reward(has_person, p[1], p[2], p[3],
                                           c[1], c[2], c[3], c[4],
                                           h[1], h[2], h[3], v[1], v[2])]
    /\ UNCHANGED <<envVars, canvasVars, expertVars>>

NextReward == CallComputeReward
SpecReward == InitPure /\ [][NextReward]_vars

IsComputeRewardCall == ~IsNone(pure_call) /\ pure_call.fn = "compute_reward"

\* The sum of the five terms of the last call, before the clip.
RewardSum ==
    pure_call.framing + pure_call.jitter + pure_call.head_cutoff
      + pure_call.thirds + pure_call.anticipation

C30_WitnessHighest ==
    /\ IsComputeRewardCall
    /\ pure_call.framing = 1000
    /\ pure_call.thirds = 200
    /\ pure_call.anticipation = 100
    /\ pure_call.result = 1300

====
